---- MODULE Spec2Model ----
(***************************************************************************)
(* Shareholder data platform: the dual-mode paginated query engine of the  *)
(* front end (App: page-load effect, sync to device, Excel export), its    *)
(* IndexedDB helper (idb.jsx), the data endpoints of the back end         *)
(* (GET /comp, GET /comp/count) and its account routes (signup, login,     *)
(* approval, removal, deletion).                                           *)
(*                                                                         *)
(* Strings are sequences of one-character strings, so that lower-casing,   *)
(* trimming, substring search and concatenation are computed and not       *)
(* assumed.  A JavaScript null/undefined field is the value Null.          *)
(***************************************************************************)
EXTENDS Integers, Sequences, FiniteSets, TLC

VARIABLES
  remote,          \* the rows of the MySQL table TABLE_NAME, in table order
  idb,             \* the IndexedDB object store "rows": a set of stored rows, one per rowKey
  hist,            \* harnesses: the upsertRows calls made so far, or the adapter call made
  offline,         \* App state: local (IndexedDB) mode
  filters,         \* App state: the filter inputs
  sortDir,         \* App state: sort direction
  page,            \* App state: the page shown
  debounced,       \* useDebouncedValue(filters, 300): the filters the page fetch uses
  timer,           \* the timeout of useDebouncedValue is pending
  rows,            \* App state: the visible rows
  totalCount,      \* App state: the visible total count
  error,           \* App state: an error message is shown
  pageCache,       \* pageCacheRef.current: entries [key, rows]
  effects,         \* the runs of the page-load effect whose async body has not returned
  staleApplied,    \* a successful response was applied for another descriptor than the current
  discarded,       \* a successful response for another descriptor than the current was dropped
  inputs,          \* number of user inputs on the page view so far
  loading,         \* App state: the loading indicator is shown
  loadingTimer,    \* the 250 ms timeout of the finally block of the current run is pending
  failed,          \* the catch block of the current run of the page-load effect has run
  syncing,         \* App state: busy flag of the bulk jobs
  syncMsg,         \* App state: which status message of the bulk jobs is shown
  jobs,            \* the running handleSyncToDevice / handleDownloadExcel calls
  started,         \* number of bulk jobs started so far
  log,             \* the last ended sync, local export and remote export
  cancelRequested, \* the user has asked to cancel the running bulk job
  afterCancel,     \* chunk fetches made since the cancellation was requested
  users,           \* the users table: the status of the row of each id
  issued,          \* the payloads of the tokens that signJWT has signed
  call,            \* the request of the first client that the server is handling
  emails,          \* the users table: the email column of the row of each id
  rival            \* the email of the signup of a second client that awaits its INSERT

viewVars == <<page, debounced, timer, rows, totalCount, error, pageCache, effects,
              staleApplied, discarded, inputs>>

loadVars == <<loading, loadingTimer, failed>>

jobVars == <<syncing, syncMsg, jobs, started, log, cancelRequested, afterCancel>>

authVars == <<users, issued, call, emails, rival>>

vars == <<remote, idb, hist, offline, filters, sortDir, viewVars, loadVars, jobVars, authVars>>

-----------------------------------------------------------------------------
(* Bounds of the model *)

\* longest batch handed to upsertRows in the upsert harness
MaxBatch == 2
\* number of upsertRows calls in one run of the upsert harness
MaxUpserts == 2
\* number of bulk jobs started in one run
MaxStarts == 2
\* number of bulk jobs that the model lets run at the same time
MaxRunning == 2
\* chunk size of the sync loop, scaled down from 10000 rows
bulkSize == 2
\* chunk size of the export loops, scaled down from 2000 rows
chunk == 2

-----------------------------------------------------------------------------
(* Strings *)

Null == <<"NULL">>

IsNullish(v) == v = Null

\* a ?? b
Coalesce(a, b) == IF IsNullish(a) THEN b ELSE a

\* a || b on string-or-null values: null, undefined and "" are falsy
OrElse(a, b) == IF IsNullish(a) \/ a = <<>> THEN b ELSE a

Digits == <<"0", "1", "2", "3", "4", "5", "6", "7", "8", "9">>

\* String(n) of a non-negative integer
RECURSIVE NumStr(_)
NumStr(n) ==
  IF n < 10 THEN <<Digits[n + 1]>>
  ELSE NumStr(n \div 10) \o <<Digits[(n % 10) + 1]>>

LowerChar(c) ==
  CASE c = "A" -> "a"
    [] c = "B" -> "b"
    [] c = "C" -> "c"
    [] c = "D" -> "d"
    [] c = "E" -> "e"
    [] c = "S" -> "s"
    [] OTHER -> c

\* String.prototype.toLowerCase
ToLowerCase(s) == [i \in 1..Len(s) |-> LowerChar(s[i])]

\* String.prototype.includes
Includes(s, p) ==
  \E i \in 0..(Len(s) - Len(p)) : \A j \in 1..Len(p) : s[i + j] = p[j]

\* v ?? "" on a field value
StrOrEmpty(v) == IF IsNullish(v) THEN <<>> ELSE v

\* a field that holds the JavaScript number n >= 0 and not a string: the mark "NUM"
\* before its decimal digits
Number(n) == <<"NUM">> \o NumStr(n)

\* typeof v === "number"
IsNumber(v) == v # <<>> /\ Head(v) = "NUM"

\* String(v) of a string or a number
StringOf(v) == IF IsNumber(v) THEN Tail(v) ELSE v

-----------------------------------------------------------------------------
(* idb.jsx: the local store *)

\* makeKey(r, idx): r.id ?? r.Folio_Dpid ?? `${company||"row"}-${first||""}-${last||""}-${idx}`.
\* A numeric id is a key of another type than any string: it is tagged with "#".
MakeKey(r, idx) ==
  Coalesce(
    IF IsNullish(r.id) THEN Null ELSE <<"#">> \o r.id,
    Coalesce(
      r.Folio_Dpid,
      OrElse(r.Company_Name, <<"r", "o", "w">>) \o <<"-">>
        \o OrElse(r.Investor_First_Name, <<>>) \o <<"-">>
        \o OrElse(r.Investor_Last_Name, <<>>) \o <<"-">>
        \o NumStr(idx)))

\* { ...rows[i], rowKey: makeKey(rows[i], i) }
WithKey(r, k) == [rowKey |-> k] @@ r

\* the row as fetched: a stored row without its rowKey
Content(s) == [f \in (DOMAIN s) \ {"rowKey"} |-> s[f]]

\* IDBObjectStore.put on the store with keyPath "rowKey": insert or overwrite
Put(store, s) == {x \in store : x.rowKey # s.rowKey} \cup {s}

\* a bug-variant of the loop that numbers the rows by the size of the store
RECURSIVE PutFromCounting(_, _, _)
PutFromCounting(store, batch, i) ==
  IF i >= Len(batch) THEN store
  ELSE PutFromCounting(
         Put(store, WithKey(batch[i + 1], MakeKey(batch[i + 1], Cardinality(store)))),
         batch, i + 1)

\* the for loop of upsertRows, from index i (0-based) on
RECURSIVE PutFrom(_, _, _)
PutFrom(store, batch, i) ==
  IF i >= Len(batch) THEN store
  ELSE PutFrom(Put(store, WithKey(batch[i + 1], MakeKey(batch[i + 1], i))), batch, i + 1)

\* upsertRows(rows): one readwrite transaction over the whole batch
UpsertRows(store, batch) ==
  IF Len(batch) = 0 THEN store ELSE PutFrom(store, batch, 0)

\* a bug-variant of clearAll that leaves the store as it is
ClearNothing(store) == store

\* clearAll(): tx.store.clear()
ClearAll(store) == {}

-----------------------------------------------------------------------------
(* Data of the model *)

Row(id, folio, company, first, last, address) ==
  [id |-> id, Folio_Dpid |-> folio, Company_Name |-> company,
   Investor_First_Name |-> first, Investor_Last_Name |-> last, Address |-> address]

\* rows with a folio, rows that share a folio, rows without id and folio
R1 == Row(Null, <<"1">>, <<"A">>, <<"a">>, <<"b">>, <<"a">>)
R2 == Row(Null, <<"2">>, <<"a", " ", "b">>, <<"a">>, <<"b">>, <<"b">>)
R3 == Row(Null, Null, <<"A">>, <<"a">>, <<"b">>, <<"a">>)
R4 == Row(Null, Null, <<"A">>, <<"a">>, <<"b">>, <<"b">>)
R5 == Row(<<"7">>, <<"1">>, <<"b">>, <<"a">>, <<"b">>, <<"a">>)

R6 == Row(Null, <<"1">>, <<"b">>, <<"a">>, <<"b">>, <<"b">>)
R7 == Row(Null, <<"3">>, <<"b">>, <<"a">>, <<"b">>, <<"a">>)
R8 == Row(Null, <<"4">>, <<"b">>, <<"a">>, <<"b">>, <<"b">>)

\* the rows of the upsert harness
RowUniverse == {R1, R3, R4, R5}

\* the tables of the remote database: two rows that no "a" pattern matches, four rows
\* with distinct keys of which two tie on the sort column, three rows of which two
\* share a folio, three rows with distinct folios of which the last two tie on the sort
\* column
RemoteTables == {<<R6, R7>>, <<R1, R3, R2, R7>>, <<R1, R2, R6>>, <<R2, R8, R7>>}

\* the patterns typed into the Company_Name filter
Patterns == {<<>>, <<" ">>, <<"a">>}

RECURSIVE SeqsUpTo(_, _)
SeqsUpTo(S, n) ==
  IF n = 0 THEN {<<>>}
  ELSE LET shorter == SeqsUpTo(S, n - 1)
       IN shorter \cup {Append(s, x) : s \in {t \in shorter : Len(t) = n - 1}, x \in S}

Batches == SeqsUpTo(RowUniverse, MaxBatch)

\* stores a session can have left behind: empty, and the result of an earlier upsert
InitStores == {{}, UpsertRows({}, <<R1, R3>>)}

-----------------------------------------------------------------------------
(* Ordering of characters and strings *)

\* UTF-16 code unit order of the characters of the model
CodeOrder == <<" ", "#", "-", "0", "1", "2", "3", "4", "5", "6", "7", "8", "9",
               "A", "B", "a", "b">>

\* the position of each character in CodeOrder
RECURSIVE PositionsFrom(_)
PositionsFrom(i) ==
  IF i > Len(CodeOrder) THEN <<>> ELSE (CodeOrder[i] :> i) @@ PositionsFrom(i + 1)

CodePositions == PositionsFrom(1)

CodeOf(c) == CodePositions[c]

\* primary collation weight: punctuation, digits, letters; case is not primary
PrimaryOf(c) == CodeOf(LowerChar(c))

\* -1, 0, 1: lexicographic comparison of two sequences of weights
LexCompare(s, t) ==
  LET n == IF Len(s) < Len(t) THEN Len(s) ELSE Len(t)
      diff == {i \in 1..n : s[i] # t[i]}
  IN IF diff = {}
       THEN (IF Len(s) < Len(t) THEN -1 ELSE IF Len(s) > Len(t) THEN 1 ELSE 0)
       ELSE LET i == CHOOSE k \in diff : \A m \in diff : k <= m
            IN IF s[i] < t[i] THEN -1 ELSE 1

CodeUnits(s) == [i \in 1..Len(s) |-> CodeOf(s[i])]

RECURSIVE PrimaryWeights(_)
PrimaryWeights(s) ==
  IF s = <<>> THEN <<>> ELSE <<PrimaryOf(Head(s))>> \o PrimaryWeights(Tail(s))

\* tertiary weight: at equal letters a lower-case letter sorts before its upper case
CaseWeight(c) == IF LowerChar(c) = c THEN 0 ELSE 1

\* String.prototype.localeCompare (root collation): primary difference first,
\* then case
LocaleCompare(s, t) ==
  LET prim == LexCompare(PrimaryWeights(s), PrimaryWeights(t))
  IN IF prim # 0 THEN prim
     ELSE LexCompare([i \in 1..Len(s) |-> CaseWeight(s[i])],
                     [i \in 1..Len(t) |-> CaseWeight(t[i])])

\* the order of IndexedDB keys (strings by code unit)
KeyLess(a, b) == LexCompare(CodeUnits(a), CodeUnits(b)) < 0

CeilDiv(a, b) == (a + b - 1) \div b

\* a bug-variant of the slice that takes one element more
SliceOneMore(seq, start, count) ==
  LET lo == IF start < Len(seq) THEN start ELSE Len(seq)
      hi == IF start + count + 1 < Len(seq) THEN start + count + 1 ELSE Len(seq)
  IN [k \in 1..(hi - lo) |-> seq[lo + k]]

\* Array.prototype.slice(start, start + count), start 0-based
Slice(seq, start, count) ==
  LET lo == IF start < Len(seq) THEN start ELSE Len(seq)
      hi == IF start + count < Len(seq) THEN start + count ELSE Len(seq)
  IN [k \in 1..(hi - lo) |-> seq[lo + k]]

Field(r, c) == IF c \in DOMAIN r THEN r[c] ELSE Null

-----------------------------------------------------------------------------
(* Backend/index.js: GET /comp and GET /comp/count *)

COLS == {"Investor_First_Name", "Investor_Middle_Name", "Investor_Last_Name",
         "Father_or_Husband_First Name", "Father_or_Husband_Middle_Name",
         "Father_or_Husband_Last_Name", "Address", "Folio_Dpid", "Company_Name",
         "No_of_Shares", "Valuation", "Case"}

\* the filter columns of the model
FilterCols == {"Company_Name"}

IsSpace(c) == c = " "

\* String.prototype.trim() = ""
TrimIsEmpty(s) == \A i \in 1..Len(s) : IsSpace(s[i])

\* value LIKE pattern under a case-insensitive collation: % any run, _ any character
RECURSIVE LikeMatch(_, _)
LikeMatch(s, p) ==
  IF p = <<>> THEN s = <<>>
  ELSE IF Head(p) = "%"
    THEN \E k \in 0..Len(s) : LikeMatch(SubSeq(s, k + 1, Len(s)), Tail(p))
  ELSE IF s = <<>> THEN FALSE
  ELSE /\ (Head(p) = "_" \/ LowerChar(Head(p)) = LowerChar(Head(s)))
       /\ LikeMatch(Tail(s), Tail(p))

\* buildWhere(query): the columns that get a LIKE condition
WhereCols(query) ==
  {key \in COLS \cap DOMAIN query :
     ~IsNullish(query[key]) /\ query[key] # <<>> /\ ~TrimIsEmpty(query[key])}

\* the WHERE clause of buildWhere on one row: `key` LIKE '%val%' for each condition
\* (NULL LIKE ... is not true)
WhereHolds(r, query) ==
  \A key \in WhereCols(query) :
    /\ ~IsNullish(Field(r, key))
    /\ LikeMatch(Field(r, key), <<"%">> \o query[key] \o <<"%">>)

Matching(table, query) == SelectSeq(table, LAMBDA r : WhereHolds(r, query))

\* GET /comp/count
RemoteCount(table, query) == Len(Matching(table, query))

MaxPageSize == 10000

ClampPageSize(n) ==
  LET lo == IF n > 1 THEN n ELSE 1 IN IF lo < MaxPageSize THEN lo ELSE MaxPageSize

ClampPage(n) == IF n > 1 THEN n ELSE 1

OrderColumn(query) == IF query.sortBy \in COLS THEN query.sortBy ELSE "Company_Name"

OrderDesc(query) == query.sortDir = "desc"

\* ORDER BY `col`: NULL first, strings by the case-insensitive collation
SqlLess(a, b) ==
  IF IsNullish(a) THEN ~IsNullish(b)
  ELSE IF IsNullish(b) THEN FALSE
  ELSE LexCompare(PrimaryWeights(a), PrimaryWeights(b)) < 0

SqlBefore(x, y, query) ==
  IF OrderDesc(query)
    THEN SqlLess(Field(y, OrderColumn(query)), Field(x, OrderColumn(query)))
    ELSE SqlLess(Field(x, OrderColumn(query)), Field(y, OrderColumn(query)))

\* the orders of the rows m[i], i in left, that put no row before a row that ORDER BY
\* sorts before it (before: the pairs <<k, j>> with m[k] sorted before m[j]): any row
\* that no other row precedes comes first
RECURSIVE OrdersFrom(_, _, _)
OrdersFrom(m, left, before) ==
  IF left = {} THEN {<<>>}
  ELSE UNION {{<<m[i]>> \o o : o \in OrdersFrom(m, left \ {i}, before)} :
                i \in {j \in left : \A k \in left : <<k, j>> \notin before}}

\* the orders in which the server may return the matching rows: ORDER BY fixes the
\* order of rows with different sort values only
SqlOrders(table, query) ==
  LET m == Matching(table, query)
      before == {p \in (1..Len(m)) \X (1..Len(m)) : SqlBefore(m[p[1]], m[p[2]], query)}
  IN OrdersFrom(m, 1..Len(m), before)

\* a bug-variant of the window with OFFSET page * pageSize
RemotePagesNextWindow(table, query) ==
  {Slice(o, ClampPage(query.page) * ClampPageSize(query.pageSize),
         ClampPageSize(query.pageSize)) : o \in SqlOrders(table, query)}

\* GET /comp: the possible answers, LIMIT pageSize OFFSET (page - 1) * pageSize
RemotePages(table, query) ==
  {Slice(o, (ClampPage(query.page) - 1) * ClampPageSize(query.pageSize),
         ClampPageSize(query.pageSize)) : o \in SqlOrders(table, query)}

\* a JavaScript number that may be NaN
NaN == [nan |-> TRUE, n |-> 0]

Num(k) == [nan |-> FALSE, n |-> k]

IsDigit(c) == \E i \in 1..10 : Digits[i] = c

DigitValue(c) == (CHOOSE i \in 1..10 : Digits[i] = c) - 1

\* the value of a sequence of decimal digits
RECURSIVE DigitsValue(_)
DigitsValue(d) ==
  IF d = <<>> THEN 0
  ELSE 10 * DigitsValue(SubSeq(d, 1, Len(d) - 1)) + DigitValue(d[Len(d)])

\* the longest prefix of s that consists of decimal digits
LeadingDigits(s) ==
  LET stops == {i \in 1..Len(s) : ~IsDigit(s[i])}
      n == IF stops = {} THEN Len(s)
           ELSE (CHOOSE i \in stops : \A j \in stops : i <= j) - 1
  IN SubSeq(s, 1, n)

\* the string without its leading white space
RECURSIVE TrimStart(_)
TrimStart(s) == IF s # <<>> /\ IsSpace(Head(s)) THEN TrimStart(Tail(s)) ELSE s

\* parseInt(s, 10): white space, an optional sign, then the leading digits; NaN
\* without a digit
ParseInt(s) ==
  LET t == TrimStart(s)
      signed == t # <<>> /\ Head(t) \in {"-", "+"}
      d == LeadingDigits(IF signed THEN Tail(t) ELSE t)
  IN IF d = <<>> THEN NaN
     ELSE IF signed /\ Head(t) = "-" THEN Num(0 - DigitsValue(d)) ELSE Num(DigitsValue(d))

\* Math.min(Math.max(parseInt(req.query.pageSize ?? "20", 10), 1), 10000): Math.max and
\* Math.min return NaN for a NaN argument
EffPageSize(raw) ==
  LET v == ParseInt(Coalesce(raw, <<"2", "0">>))
  IN IF v.nan THEN NaN ELSE Num(ClampPageSize(v.n))

\* Math.max(parseInt(req.query.page ?? "1", 10), 1)
EffPage(raw) ==
  LET v == ParseInt(Coalesce(raw, <<"1">>))
  IN IF v.nan THEN NaN ELSE Num(ClampPage(v.n))

\* a value of req.query: absent, a string, or an array of strings (a repeated key)
Absent == [kind |-> "absent"]

Str(t) == [kind |-> "string", text |-> t]

Arr(t) == [kind |-> "array", text |-> t]

\* a bug-variant of the sortBy check that takes every string as it comes
OrderColumnUnchecked(raw) == IF raw.kind = "string" THEN raw.text ELSE "Company_Name"

\* COLS.includes(req.query.sortBy) ? req.query.sortBy : "Company_Name"
OrderColumnOf(raw) ==
  IF raw.kind = "string" /\ raw.text \in COLS THEN raw.text ELSE "Company_Name"

\* req.query.sortDir?.toLowerCase() === "desc" ? "DESC" : "ASC", on an absent or
\* string value
OrderDirOf(raw) ==
  IF raw.kind = "string" /\ ToLowerCase(raw.text) = <<"d", "e", "s", "c">>
    THEN "desc" ELSE "asc"

\* the parameters of the SQL statement of GET /comp for the request req
QueryOf(req) ==
  [page |-> EffPage(req.page).n, pageSize |-> EffPageSize(req.pageSize).n,
   sortBy |-> OrderColumnOf(req.sortBy), sortDir |-> OrderDirOf(req.sortDir),
   Company_Name |-> req.Company_Name]

\* LIMIT ? OFFSET ? with a NaN value: pool.query rejects and the handler answers 500
QueryFails(req) == EffPage(req.page).nan \/ EffPageSize(req.pageSize).nan

\* GET /comp: the possible responses to the request req
GetComp(table, req) ==
  IF QueryFails(req) THEN {[status |-> 500, rows |-> <<>>]}
  ELSE {[status |-> 200, rows |-> p] : p \in RemotePages(table, QueryOf(req))}

\* GET /comp/count: the response to the request req
GetCompCount(table, req) == [status |-> 200, count |-> RemoteCount(table, req)]

-----------------------------------------------------------------------------
(* Backend/index.js: the users table, the account routes and requireAuth *)

\* the ids of the users table; an id is given to one row and never again
Uids == {"u1", "u2"}

\* the status column of a row; "unused" and "deleted" stand for an id without a row
HasRow(usersV, u) == u \in Uids /\ usersV[u] \in {"pending", "active", "removed"}

\* the payload of a token: login tokens and reset tokens carry uid, the tokens of the
\* approval links carry userId
Payload(kindV, uidV, userIdV) == [kind |-> kindV, uid |-> uidV, userId |-> userIdV]

LoginToken(u) == Payload("login", u, "undefined")

ResetToken(u) == Payload("reset", u, "undefined")

ApproveToken(u) == Payload("approve", "undefined", u)

RemoveToken(u) == Payload("remove", "undefined", u)

\* a token string: whether it carries a signature made with JWT_SECRET, whether its
\* exp lies in the past, and its payload
Token(signedV, expiredV, payloadV) ==
  [signed |-> signedV, expired |-> expiredV, payload |-> payloadV]

\* the empty string after "Bearer "
EmptyToken == Token(FALSE, FALSE, Payload("empty", "undefined", "undefined"))

\* jwt.verify(token, JWT_SECRET) returns the payload and does not throw
VerifyJWT(token) == token.signed /\ ~token.expired

\* the Authorization header: absent, of another scheme, or "Bearer " and a token
Header(schemeV, tokenV) == [scheme |-> schemeV, token |-> tokenV]

NoHeader == Header("absent", EmptyToken)

\* a bug-variant of requireAuth that trusts the token and does not look the user up
AuthOutcomeTokenOnly(hdr, usersV) ==
  IF hdr.scheme # "Bearer" \/ hdr.token = EmptyToken THEN "401"
  ELSE IF ~VerifyJWT(hdr.token) THEN "401"
  ELSE "next"

\* requireAuth: "401", "403" or "next"
AuthOutcome(hdr, usersV) ==
  IF hdr.scheme # "Bearer" \/ hdr.token = EmptyToken THEN "401"
  ELSE IF ~VerifyJWT(hdr.token) THEN "401"
  ELSE LET found == {u \in Uids : u = hdr.token.payload.uid /\ HasRow(usersV, u)}
       IN IF found = {} THEN "401"
          ELSE IF \E u \in found : usersV[u] # "active" THEN "403"
          ELSE "next"

NoCall == [pc |-> "none"]

\* no user, no token, no request
\* email addresses, a domain name being one token; the addresses of the model carry no
\* surrounding blanks, which isAllowedDomain would trim
ADMIN_EMAIL == <<"saurabh", "@", "thewealthfinder.in">>

\* the address of the primary admin as a client may write it
CapitalEmail == <<"Saurabh", "@", "thewealthfinder.in">>

StaffEmail == <<"asha", "@", "thewealthfinder.in">>

OutsideEmail == <<"asha", "@", "gmail.com">>

LookalikeEmail == <<"asha", "@", "thewealthfinder.in", ".", "example.com">>

\* a missing email field, or the email of an id without a row
NoEmail == <<>>

Emails == {ADMIN_EMAIL, CapitalEmail, StaffEmail, OutsideEmail, LookalikeEmail}

\* the lower-case form of a token and of an address
Lower(tok) == IF tok = "Saurabh" THEN "saurabh" ELSE tok

Fold(email) == [k \in DOMAIN email |-> Lower(email[k])]

\* the comparison of the email column, whose collation (the default of utf8mb4) ignores
\* case
SameEmail(a, b) == Fold(a) = Fold(b)

\* /@thewealthfinder\.in$/i.test(String(email || "").trim())
IsAllowedDomain(email) ==
  /\ Len(email) >= 2
  /\ SubSeq(Fold(email), Len(email) - 1, Len(email)) = <<"@", "thewealthfinder.in">>

\* the password each person signs up with, and the passwords a login can carry
PasswordOf(email) == IF SameEmail(email, ADMIN_EMAIL) THEN "s3cret" ELSE "hunter2"

Passwords == {"s3cret", "hunter2"}

\* bcrypt.hash(password, 10), and bcrypt.compare(password, hash)
Hash(password) == <<"bcrypt", password>>

BcryptCompare(password, hash) == Hash(password) = hash

\* the password_hash column of the row of id u
PasswordHash(emailsV, u) == Hash(PasswordOf(emailsV[u]))

\* SELECT ... FROM users WHERE email = ?
RowsWithEmail(usersV, emailsV, email) ==
  {u \in Uids : HasRow(usersV, u) /\ SameEmail(emailsV[u], email)}

\* u.email === ADMIN_EMAIL ? "admin" : "user"
RoleOf(emailsV, u) ==
  IF u \in DOMAIN emailsV /\ emailsV[u] = ADMIN_EMAIL THEN "admin" ELSE "user"

\* the ids in the order AUTO_INCREMENT hands them out
UidOrder == <<"u1", "u2">>

\* the next value of AUTO_INCREMENT is free
HasNextId(usersV) == \E k \in DOMAIN UidOrder : usersV[UidOrder[k]] = "unused"

\* result.insertId
NextId(usersV) ==
  UidOrder[CHOOSE k \in DOMAIN UidOrder :
             /\ usersV[UidOrder[k]] = "unused"
             /\ \A m \in DOMAIN UidOrder : usersV[UidOrder[m]] = "unused" => k <= m]

\* no user, no token, no request
AuthIdle ==
  /\ users = [u \in Uids |-> "unused"]
  /\ issued = {}
  /\ call = NoCall
  /\ emails = [u \in Uids |-> NoEmail]
  /\ rival = NoEmail

dataVars == <<remote, idb, hist, offline, filters, sortDir, viewVars, loadVars, jobVars>>

\* the first client sends a request when its previous one has been answered
CanCall == call.pc \in {"none", "done"}

\* the answer to the request of the first client
Answered(statusV) == [pc |-> "done", ep |-> call.ep, status |-> statusV, queried |-> FALSE]

\* POST /signup arrives with name, password and the email field
PostSignup(email) ==
  /\ CanCall
  /\ call' = [pc |-> "signup", ep |-> "signup", email |-> email]
  /\ UNCHANGED <<users, issued, emails, rival, dataVars>>

\* POST /signup up to await bcrypt.hash: "400" for a missing field or another domain,
\* "409" when the SELECT finds the email, "insert" otherwise
SignupCheck(usersV, emailsV, email) ==
  IF email = NoEmail \/ ~IsAllowedDomain(email) THEN "400"
  ELSE IF RowsWithEmail(usersV, emailsV, email) # {} THEN "409"
  ELSE "insert"

SignupChecked ==
  /\ call.pc = "signup"
  /\ LET outcome == SignupCheck(users, emails, call.email)
     IN call' = IF outcome = "insert" THEN [call EXCEPT !.pc = "insert"]
                ELSE Answered(outcome)
  /\ UNCHANGED <<users, issued, emails, rival, dataVars>>

\* a bug-variant of the users table without the UNIQUE index on email
NoUniqueIndex(usersV, emailsV, email) == FALSE

\* email VARCHAR(150) UNIQUE: the INSERT fails with a duplicate-entry error
DuplicateEntry(usersV, emailsV, email) == RowsWithEmail(usersV, emailsV, email) # {}

\* INSERT INTO users (...) VALUES (?,?,?, 'pending'), then the approval links are signed
InsertUser(email) ==
  /\ HasNextId(users)
  /\ LET u == NextId(users)
     IN /\ users' = [users EXCEPT ![u] = "pending"]
        /\ emails' = [emails EXCEPT ![u] = email]
        /\ issued' = issued \cup {ApproveToken(u), RemoveToken(u)}

\* POST /signup from the INSERT on: the row is inserted and the answer is 200, or the
\* INSERT throws and the catch block answers 500
SignupInserted ==
  /\ call.pc = "insert"
  /\ IF DuplicateEntry(users, emails, call.email)
       THEN call' = Answered("500") /\ UNCHANGED <<users, emails, issued>>
       ELSE InsertUser(call.email) /\ call' = Answered("200")
  /\ UNCHANGED <<rival, dataVars>>

\* POST /signup of a second client up to await bcrypt.hash, when it passes the tests
RivalChecked(email) ==
  /\ rival = NoEmail
  /\ SignupCheck(users, emails, email) = "insert"
  /\ rival' = email
  /\ UNCHANGED <<users, issued, call, emails, dataVars>>

\* POST /signup of the second client from the INSERT on
RivalInserted ==
  /\ rival # NoEmail
  /\ IF DuplicateEntry(users, emails, rival)
       THEN UNCHANGED <<users, emails, issued>>
       ELSE InsertUser(rival)
  /\ rival' = NoEmail
  /\ UNCHANGED <<call, dataVars>>

\* GET /approve with the approval link, or POST /admin/approve/:id:
\* UPDATE users SET status='active' WHERE id=?
Approve(u) ==
  /\ HasRow(users, u)
  /\ users' = [users EXCEPT ![u] = "active"]
  /\ UNCHANGED <<issued, call, emails, rival, dataVars>>

\* GET /remove with the removal link, or POST /admin/remove/:id:
\* UPDATE users SET status='removed' WHERE id=?
Remove(u) ==
  /\ HasRow(users, u)
  /\ users' = [users EXCEPT ![u] = "removed"]
  /\ UNCHANGED <<issued, call, emails, rival, dataVars>>

\* POST /login arrives with the email and password fields
PostLogin(email, password) ==
  /\ CanCall
  /\ call' = [pc |-> "login", ep |-> "login", email |-> email, password |-> password]
  /\ UNCHANGED <<users, issued, emails, rival, dataVars>>

\* a bug-variant of the status test that refuses removed users only
LoginAllowedUnlessRemoved(statusV) == statusV # "removed"

\* user.status !== "active" answers 403
LoginAllowed(statusV) == statusV = "active"

\* no row of the users table
NoRow == [id |-> "none"]

\* POST /login up to await bcrypt.compare: 400 for a missing field, then
\* SELECT * FROM users WHERE email = ? and rows?.[0]
LoginSelected ==
  /\ call.pc = "login"
  /\ LET found == RowsWithEmail(users, emails, call.email)
     IN IF call.email = NoEmail THEN call' = Answered("400")
        ELSE IF found = {} THEN call' = [row |-> NoRow] @@ [call EXCEPT !.pc = "compare"]
        ELSE \E u \in found :
               call' = [row |-> [id |-> u, email |-> emails[u], status |-> users[u],
                                 password_hash |-> PasswordHash(emails, u)]]
                       @@ [call EXCEPT !.pc = "compare"]
  /\ UNCHANGED <<users, issued, emails, rival, dataVars>>

\* POST /login from the row on: 401 for no row or a wrong password, 403 for a user that
\* is not active, otherwise the token is signed and returned
LoginAnswered ==
  /\ call.pc = "compare"
  /\ IF call.row = NoRow
       THEN call' = Answered("401") /\ UNCHANGED issued
     ELSE IF ~BcryptCompare(call.password, call.row.password_hash)
       THEN call' = Answered("401") /\ UNCHANGED issued
     ELSE IF ~LoginAllowed(call.row.status)
       THEN call' = Answered("403") /\ UNCHANGED issued
     ELSE /\ call' = [token |-> LoginToken(call.row.id)] @@ Answered("200")
          /\ issued' = issued \cup {LoginToken(call.row.id)}
  /\ UNCHANGED <<users, emails, rival, dataVars>>

\* POST /password/forgot for a user that is not removed: the reset token is signed
Forgot(u) ==
  /\ HasRow(users, u) /\ users[u] # "removed"
  /\ issued' = issued \cup {ResetToken(u)}
  /\ UNCHANGED <<users, call, emails, rival, dataVars>>

\* the headers a client can send: none, another scheme, "Bearer " alone, a token the
\* server has signed (which may have expired), or a token signed with another key
SentHeaders ==
  {NoHeader, Header("Bearer", EmptyToken)}
  \cup {Header(sch, Token(TRUE, ex, pl)) :
          sch \in {"Basic", "Bearer"}, ex \in BOOLEAN, pl \in issued}
  \cup {Header("Bearer", Token(FALSE, FALSE, LoginToken(u))) : u \in Uids}

\* a request to GET /comp or GET /comp/count arrives
Arrive(ep, hdr) ==
  /\ CanCall
  /\ call' = [pc |-> "auth", ep |-> ep, hdr |-> hdr, status |-> "none", queried |-> FALSE]
  /\ UNCHANGED <<users, issued, emails, rival, dataVars>>

\* requireAuth runs: the token is verified and the user is looked up
RequireAuth ==
  /\ call.pc = "auth"
  /\ LET outcome == AuthOutcome(call.hdr, users)
     IN call' = IF outcome = "next" THEN [call EXCEPT !.pc = "handler"]
                ELSE [call EXCEPT !.pc = "done", !.status = outcome]
  /\ UNCHANGED <<users, issued, emails, rival, dataVars>>

\* the handler of the endpoint runs its query and answers
Handler ==
  /\ call.pc = "handler"
  /\ call' = [call EXCEPT !.pc = "done", !.status = "200", !.queried = TRUE]
  /\ UNCHANGED <<users, issued, emails, rival, dataVars>>

\* the ids of POST /admin/delete/:id: the ids of the table and one that it never had
DeleteIds == Uids \cup {"u0"}

\* the headers of the requests to the admin API: none, or a token the server has signed
AdminHeaders == {NoHeader} \cup {Header("Bearer", Token(TRUE, FALSE, pl)) : pl \in issued}

\* POST /admin/delete/:id arrives with an Authorization header
PostDelete(hdr, id) ==
  /\ CanCall
  /\ call' = [pc |-> "delete", ep |-> "delete", hdr |-> hdr, id |-> id]
  /\ UNCHANGED <<users, issued, emails, rival, dataVars>>

\* a bug-variant of the handler without the test of the primary admin
NeverPrimaryAdmin(email) == FALSE

\* u.email === ADMIN_EMAIL
IsPrimaryAdmin(email) == email = ADMIN_EMAIL

\* POST /admin/delete/:id: requireAuth, requireAdmin, then the handler: 404 without a
\* row, 400 for the primary admin, otherwise DELETE FROM users WHERE id = ?
DeleteHandled ==
  /\ call.pc = "delete"
  /\ LET outcome == AuthOutcome(call.hdr, users)
     IN IF outcome # "next"
          THEN call' = Answered(outcome) /\ UNCHANGED <<users, emails>>
        ELSE IF RoleOf(emails, call.hdr.token.payload.uid) # "admin"
          THEN call' = Answered("403") /\ UNCHANGED <<users, emails>>
        ELSE IF ~HasRow(users, call.id)
          THEN call' = Answered("404") /\ UNCHANGED <<users, emails>>
        ELSE IF IsPrimaryAdmin(emails[call.id])
          THEN call' = Answered("400") /\ UNCHANGED <<users, emails>>
        ELSE /\ users' = [users EXCEPT ![call.id] = "deleted"]
             /\ emails' = [emails EXCEPT ![call.id] = NoEmail]
             /\ call' = Answered("200")
  /\ UNCHANGED <<issued, rival, dataVars>>

-----------------------------------------------------------------------------
(* idb.jsx: reading the local store *)

\* rowMatches(r, filters)
RowMatches(r, flt) ==
  \A k \in DOMAIN flt :
    \/ IsNullish(flt[k]) \/ flt[k] = <<>>
    \/ Includes(ToLowerCase(StringOf(StrOrEmpty(Field(r, k)))), ToLowerCase(flt[k]))

RECURSIVE SetToSortedSeq(_)
\* the rows of the store in cursor order (ascending rowKey)
SetToSortedSeq(store) ==
  IF store = {} THEN <<>>
  ELSE LET least == CHOOSE x \in store :
                      \A y \in store : y = x \/ KeyLess(x.rowKey, y.rowKey)
       IN <<least>> \o SetToSortedSeq(store \ {least})

\* the cursor loop of getCountFromIDB / getPageFromIDB
CursorMatches(store, flt) ==
  SelectSeq(SetToSortedSeq(store), LAMBDA r : RowMatches(r, flt))

\* getCountFromIDB(filters)
GetCountFromIDB(store, flt) == Len(CursorMatches(store, flt))

\* the value of a field that holds a number
NumberOf(v) == DigitsValue(Tail(v))

\* the comparator of getPageFromIDB returns a negative number: va - vb when both
\* values are numbers, String(va).localeCompare(String(vb)) otherwise
IdbBefore(x, y, q) ==
  LET va == StrOrEmpty(Field(x, q.sortBy))
      vb == StrOrEmpty(Field(y, q.sortBy))
  IN IF IsNumber(va) /\ IsNumber(vb)
       THEN IF q.sortDir = "asc" THEN NumberOf(va) - NumberOf(vb) < 0
                                 ELSE NumberOf(vb) - NumberOf(va) < 0
       ELSE IF q.sortDir = "asc" THEN LocaleCompare(StringOf(va), StringOf(vb)) < 0
                                 ELSE LocaleCompare(StringOf(vb), StringOf(va)) < 0

\* all.sort(comparator): a stable sort, x before y iff the comparator is negative
SortRows(all, q) ==
  LET n == Len(all)
      pos(i) == 1 + Cardinality({j \in 1..n :
                    \/ IdbBefore(all[j], all[i], q)
                    \/ (~IdbBefore(all[i], all[j], q) /\ j < i)})
  IN [k \in 1..n |-> all[CHOOSE i \in 1..n : pos(i) = k]]

\* getPageFromIDB({page, pageSize, sortBy, sortDir, filters}).rows
GetPageFromIDB(store, q) ==
  Slice(SortRows(CursorMatches(store, q.filters), q),
        (q.page - 1) * q.pageSize, q.pageSize)

-----------------------------------------------------------------------------
(* App: state shared by the bulk jobs *)

NUMERIC_COLS == {"No_of_Shares", "Valuation"}

\* valuationOrder && NUMERIC_COLS.has(sortBy) ? valuationOrder : sortDir
EffSortDir(sortByV, sortDirV, valuationOrderV) ==
  IF valuationOrderV # "" /\ sortByV \in NUMERIC_COLS THEN valuationOrderV ELSE sortDirV

\* the sort column of the session (useState("Company_Name"))
sortBy == "Company_Name"

\* the request parameters { page, pageSize, sortBy, sortDir, ...filters }
Params(pageV, pageSizeV, dirV, flt) ==
  [page |-> pageV, pageSize |-> pageSizeV, sortBy |-> sortBy, sortDir |-> dirV] @@ flt

\* the descriptor handed to getPageFromIDB
LocalQuery(pageV, pageSizeV, dirV, flt) ==
  [page |-> pageV, pageSize |-> pageSizeV, sortBy |-> sortBy, sortDir |-> dirV,
   filters |-> flt]

NoRec == [outcome |-> "none"]

\* log.last: "start" while a job runs, otherwise the kind of the job that ended last
NoLog == [sync |-> NoRec, local |-> NoRec, remoteX |-> NoRec, last |-> "none"]

NewJob(kindV, pcV) ==
  [kind |-> kindV, pc |-> pcV, F |-> filters,
   dir |-> EffSortDir(sortBy, sortDir, ""), local |-> offline,
   total |-> 0, fetched |-> 0, p |-> 1, batch |-> <<>>,
   pages |-> <<>>, chunks |-> <<>>, rows |-> <<>>, hadRows |-> idb # {}]

RemoveAt(seq, i) == [k \in 1..(Len(seq) - 1) |-> IF k < i THEN seq[k] ELSE seq[k + 1]]

Ended(j, outcomeV) == [outcome |-> outcomeV] @@ j

\* a bug-variant of the buttons that leaves them enabled while a job runs
ButtonsAlwaysEnabled == FALSE

\* disabled={syncing} of the "Sync to device" and "Download Excel" buttons
ButtonsDisabled == syncing

\* a bug-variant of the sync that drops the page cache with the old store
CacheDropped(cache) == {}

\* "Clearing old cache": clearAll() empties the IndexedDB store, and the handler
\* does not touch pageCacheRef
CacheAfterClear(cache) == cache

\* bookkeeping of the cancellation request when a job ends
CancelReset == cancelRequested' = FALSE /\ afterCancel' = 0

CountFetch == afterCancel' = IF cancelRequested /\ afterCancel < 2
                               THEN afterCancel + 1 ELSE afterCancel

-----------------------------------------------------------------------------
(* App: handleSyncToDevice *)

\* click on "Sync to device": setSyncing(true), "Clearing old cache...", await clearAll()
StartSync ==
  /\ ~ButtonsDisabled
  /\ jobs' = Append(jobs, NewJob("sync", "clear"))
  /\ started' = started + 1
  /\ syncing' = TRUE
  /\ syncMsg' = "clearing"
  /\ log' = [log EXCEPT !.sync = NoRec, !.local = NoRec, !.last = "start"]
  /\ UNCHANGED <<viewVars, loadVars, remote, idb, hist, authVars, offline, filters, sortDir, cancelRequested, afterCancel>>

\* clearAll() has run; the count request is sent
SyncCleared(i) ==
  /\ jobs[i].kind = "sync" /\ jobs[i].pc = "clear"
  /\ idb' = ClearAll(idb)
  /\ pageCache' = CacheAfterClear(pageCache)
  /\ jobs' = [jobs EXCEPT ![i].pc = "count"]
  /\ UNCHANGED <<page, debounced, timer, rows, totalCount, error, effects, staleApplied,
                 discarded, inputs, loadVars, remote, hist, authVars, syncing, syncMsg,
                 offline, filters, sortDir, started, log, cancelRequested, afterCancel>>

\* a bug-variant of the handlers without the finally block
BusyKept == TRUE

\* finally { setSyncing(false) }
BusyAfterJob == FALSE

\* the end of the try block, then finally: "Done. Cached n rows", setSyncing(false)
SyncEnd(i, j) ==
  /\ jobs' = RemoveAt(jobs, i)
  /\ syncMsg' = "done"
  /\ syncing' = BusyAfterJob
  /\ log' = [log EXCEPT !.sync = Ended(j, "ok"), !.last = "sync"]
  /\ CancelReset

\* GET /comp/count has answered: total === 0 returns, otherwise the loop starts
SyncCounted(i) ==
  /\ jobs[i].kind = "sync" /\ jobs[i].pc = "count"
  /\ LET total == RemoteCount(remote, Params(1, 1, jobs[i].dir, jobs[i].F))
         j == [jobs[i] EXCEPT !.total = total]
     IN IF total = 0
          THEN /\ jobs' = RemoveAt(jobs, i)
               /\ syncMsg' = "nothing"
               /\ syncing' = FALSE
               /\ log' = [log EXCEPT !.sync = Ended(j, "nothing"), !.last = "sync"]
               /\ CancelReset
          ELSE /\ jobs' = [jobs EXCEPT ![i] = [j EXCEPT !.pc = "fetch"]]
               /\ syncMsg' = "syncing"
               /\ UNCHANGED <<syncing, log, cancelRequested, afterCancel>>
  /\ UNCHANGED <<viewVars, loadVars, remote, idb, hist, authVars, offline, filters, sortDir, started>>

\* GET /comp for chunk p has answered: an empty batch ends the loop, otherwise
\* upsertRows(batch) is awaited
SyncFetched(i) ==
  /\ jobs[i].kind = "sync" /\ jobs[i].pc = "fetch"
  /\ \E batch \in RemotePages(remote, Params(jobs[i].p, bulkSize, jobs[i].dir, jobs[i].F)) :
       LET j == [jobs[i] EXCEPT !.pages = Append(@, jobs[i].p), !.batch = batch]
       IN IF Len(batch) = 0
            THEN SyncEnd(i, j)
            ELSE /\ jobs' = [jobs EXCEPT ![i] = [j EXCEPT !.pc = "upsert"]]
                 /\ CountFetch
                 /\ UNCHANGED <<syncing, syncMsg, log, cancelRequested>>
  /\ UNCHANGED <<viewVars, loadVars, remote, idb, hist, authVars, offline, filters, sortDir, started>>

\* a bug-variant of the loop that ends on a short batch only
SyncLoopEndsOnShort(batchLen, fetchedV, totalV) == batchLen < bulkSize

\* after the upsert: if (batch.length < bulkSize) break, and while (fetched < total)
SyncLoopEnds(batchLen, fetchedV, totalV) ==
  batchLen < bulkSize \/ ~(fetchedV < totalV)

\* upsertRows(batch) has run: fetched += batch.length, p += 1, a short batch or
\* fetched >= total ends the loop
SyncUpserted(i) ==
  /\ jobs[i].kind = "sync" /\ jobs[i].pc = "upsert"
  /\ idb' = UpsertRows(idb, jobs[i].batch)
  /\ LET j == [jobs[i] EXCEPT !.fetched = @ + Len(jobs[i].batch), !.p = @ + 1,
                              !.chunks = Append(@, jobs[i].batch), !.batch = <<>>]
     IN IF SyncLoopEnds(Len(jobs[i].batch), j.fetched, j.total)
          THEN SyncEnd(i, j)
          ELSE /\ jobs' = [jobs EXCEPT ![i] = [j EXCEPT !.pc = "fetch"]]
               /\ syncMsg' = "syncing"
               /\ UNCHANGED <<syncing, log, cancelRequested, afterCancel>>
  /\ UNCHANGED <<viewVars, loadVars, remote, hist, authVars, offline, filters, sortDir, started>>

\* a bug-variant of the catch block that rolls the store back by clearing it
StoreCleared(store) == {}

\* the catch block of handleSyncToDevice leaves the store as the failure left it
StoreAfterSyncFailure(store) == store

\* clearAll, a request or upsertRows throws: catch sets "Sync failed: ...", then finally
SyncFailed(i) ==
  /\ jobs[i].kind = "sync"
  /\ idb' = StoreAfterSyncFailure(idb)
  /\ jobs' = RemoveAt(jobs, i)
  /\ syncMsg' = "failed"
  /\ syncing' = BusyAfterJob
  /\ log' = [log EXCEPT !.sync = Ended(jobs[i], "failed"), !.last = "sync"]
  /\ CancelReset
  /\ UNCHANGED <<viewVars, loadVars, remote, hist, authVars, offline, filters, sortDir, started>>

-----------------------------------------------------------------------------
(* App: handleDownloadExcel *)

\* click on "Download Excel": setSyncing(true), "Preparing export...", the count is awaited
StartExport ==
  /\ ~ButtonsDisabled
  /\ jobs' = Append(jobs, NewJob("export", "count"))
  /\ started' = started + 1
  /\ loading' = TRUE
  /\ syncing' = TRUE
  /\ syncMsg' = "preparing"
  /\ log' = IF offline THEN [log EXCEPT !.local = NoRec, !.last = "start"]
                     ELSE [log EXCEPT !.remoteX = NoRec, !.last = "start"]
  /\ UNCHANGED <<viewVars, loadingTimer, failed, remote, idb, hist, authVars, offline, filters, sortDir, cancelRequested, afterCancel>>

BASE_COLS == <<"Investor_First_Name", "Investor_Middle_Name", "Investor_Last_Name",
               "Father_or_Husband_First Name", "Father_or_Husband_Middle_Name",
               "Father_or_Husband_Last_Name", "Address", "Folio_Dpid", "Company_Name",
               "No_of_Shares", "Valuation", "Case">>

\* the keys outside BASE_COLS that rows of the model carry, in the order of Object.keys
ExtraOrder == <<"id", "rowKey">>

\* what headersSeen holds beyond BASE_COLS after the loops: the remote loop adds
\* Object.keys of every row of every batch, the offline loop adds nothing
HeadersSeen(local, got) ==
  IF local THEN <<>>
  ELSE SelectSeq(ExtraOrder, LAMBDA h : \E k \in 1..Len(got) : h \in DOMAIN got[k])

\* Array.from(new Set([...BASE_COLS, ...headersSeen]))
Headers(j) == BASE_COLS \o HeadersSeen(j.local, j.rows)

\* exportRows.map: obj[h] = r?.[h] ?? "" for every header h
Normalized(j) ==
  [k \in 1..Len(j.rows) |->
     [h \in {Headers(j)[n] : n \in 1..Len(Headers(j))} |->
        Coalesce(Field(j.rows[k], h), <<>>)]]

\* the job record of an export that wrote its workbook: the header row and the sheet
Exported(j) == [headers |-> Headers(j), sheet |-> Normalized(j)] @@ Ended(j, "ok")

\* the workbook is written, "Export done", then finally { setLoading(false);
\* setSyncing(false) }
ExportEnd(i, j) ==
  /\ jobs' = RemoveAt(jobs, i)
  /\ loading' = FALSE
  /\ syncMsg' = "exportdone"
  /\ syncing' = BusyAfterJob
  /\ log' = IF j.local THEN [log EXCEPT !.local = Exported(j), !.last = "export"]
                       ELSE [log EXCEPT !.remoteX = Exported(j), !.last = "export"]
  /\ CancelReset

\* getCountFromIDB / GET /comp/count has answered; the offline loop runs only while
\* got < exportTotal
ExportCounted(i) ==
  /\ jobs[i].kind = "export" /\ jobs[i].pc = "count"
  /\ LET total == IF jobs[i].local
                    THEN GetCountFromIDB(idb, jobs[i].F)
                    ELSE RemoteCount(remote, Params(1, 1, jobs[i].dir, jobs[i].F))
         j == [jobs[i] EXCEPT !.total = total]
     IN IF j.local /\ ~(0 < total)
          THEN ExportEnd(i, j)
          ELSE /\ jobs' = [jobs EXCEPT ![i] = [j EXCEPT !.pc = "fetch"]]
               /\ UNCHANGED <<loading, syncing, syncMsg, log, cancelRequested, afterCancel>>
  /\ UNCHANGED <<viewVars, loadingTimer, failed, remote, idb, hist, authVars, offline, filters, sortDir, started>>

\* the body of an export loop on the answer batch for chunk p
ExportStep(i, batch) ==
  LET j == [jobs[i] EXCEPT !.pages = Append(@, jobs[i].p),
                           !.rows = @ \o batch,
                           !.fetched = @ + Len(batch)]
  IN IF Len(batch) = 0 \/ Len(batch) < chunk
       THEN ExportEnd(i, j)
       ELSE IF j.local /\ ~(j.fetched < j.total)
         THEN ExportEnd(i, [j EXCEPT !.p = @ + 1])
         ELSE /\ jobs' = [jobs EXCEPT ![i] = [j EXCEPT !.p = @ + 1]]
              /\ syncMsg' = "loading"
              /\ CountFetch
              /\ UNCHANGED <<loading, syncing, log, cancelRequested>>

\* getPageFromIDB / GET /comp for chunk p has answered
ExportFetched(i) ==
  /\ jobs[i].kind = "export" /\ jobs[i].pc = "fetch"
  /\ IF jobs[i].local
       THEN \E batch \in {GetPageFromIDB(idb,
                              LocalQuery(jobs[i].p, chunk, jobs[i].dir, jobs[i].F))} :
              ExportStep(i, batch)
       ELSE \E batch \in RemotePages(remote,
                           Params(jobs[i].p, chunk, jobs[i].dir, jobs[i].F)) :
              ExportStep(i, batch)
  /\ UNCHANGED <<viewVars, loadingTimer, failed, remote, idb, hist, authVars, offline, filters, sortDir, started>>

\* a request or a store read throws: catch sets "Download failed", then finally
ExportFailed(i) ==
  /\ jobs[i].kind = "export"
  /\ jobs' = RemoveAt(jobs, i)
  /\ syncMsg' = "downloadfailed"
  /\ loading' = FALSE
  /\ syncing' = BusyAfterJob
  /\ log' = IF jobs[i].local
               THEN [log EXCEPT !.local = Ended(jobs[i], "failed"), !.last = "export"]
               ELSE [log EXCEPT !.remoteX = Ended(jobs[i], "failed"), !.last = "export"]
  /\ CancelReset
  /\ UNCHANGED <<viewVars, loadingTimer, failed, remote, idb, hist, authVars, offline, filters, sortDir, started>>

-----------------------------------------------------------------------------
(* The cancellation request *)

\* the user asks to cancel the running bulk job
RequestCancel ==
  /\ jobs # <<>> /\ ~cancelRequested
  /\ cancelRequested' = TRUE
  /\ UNCHANGED <<viewVars, loadVars, remote, idb, hist, authVars, syncing, syncMsg, offline, filters, sortDir,
                 jobs, started, log, afterCancel>>

(* App: the page view and the page-load effect *)

\* the page size of the session (useState(20)), scaled down
pageSize == 2

\* a user input is possible while fewer than MaxInputs have been made
MaxInputs == 2

\* Math.max(1, Math.ceil(totalCount / pageSize))
TotalPages(tc) == IF tc <= 0 THEN 1 ELSE (tc + pageSize - 1) \div pageSize

\* JSON.stringify(debouncedFilters), a column name being one token
StringifyFilters(flt) ==
  <<"{">> \o <<"Company_Name", ":", "\"">> \o flt["Company_Name"] \o <<"\"">> \o <<"}">>

\* a bug-variant of the cache key that leaves the page out
CacheKeyNoPage(pageV, pageSizeV, sortByV, dirV, flt) ==
  NumStr(pageSizeV) \o <<"-">> \o <<sortByV>> \o <<"-">> \o <<dirV>> \o <<"-">>
    \o StringifyFilters(flt)

\* `${page}-${pageSize}-${sortBy}-${effSortDir}-${JSON.stringify(debouncedFilters)}`
CacheKey(pageV, pageSizeV, sortByV, dirV, flt) ==
  NumStr(pageV) \o <<"-">> \o NumStr(pageSizeV) \o <<"-">> \o <<sortByV>> \o <<"-">>
    \o <<dirV>> \o <<"-">> \o StringifyFilters(flt)

\* pageCacheRef.current[cacheKey] is set
InCache(cache, key) == \E c \in cache : c.key = key

\* pageCacheRef.current[cacheKey]
CachedRows(cache, key) == (CHOOSE c \in cache : c.key = key).rows

\* pageCacheRef.current[cacheKey] = rowsData
CachePut(cache, key, rowsData) ==
  {c \in cache : c.key # key} \cup {[key |-> key, rows |-> rowsData]}

\* the descriptor of the view: the dependencies of the page-load effect
CurDesc ==
  [off |-> offline, page |-> page, pageSize |-> pageSize, F |-> debounced,
   sortBy |-> sortBy, dir |-> EffSortDir(sortBy, sortDir, "")]

\* one run of the page-load effect: the values its closure captured, its cancelled
\* flag, and the await it is suspended at
NewEffect(offV, pageV, flt, dirV) ==
  [off |-> offV, page |-> pageV, pageSize |-> pageSize, F |-> flt, sortBy |-> sortBy,
   dir |-> dirV, key |-> CacheKey(pageV, pageSize, sortBy, dirV, flt),
   cancelled |-> FALSE, pc |-> "count"]

DescOf(e) ==
  [off |-> e.off, page |-> e.page, pageSize |-> e.pageSize, F |-> e.F,
   sortBy |-> e.sortBy, dir |-> e.dir]

\* the cleanup of the page-load effect: cancelled = true
Cleanup(effs) == [k \in DOMAIN effs |-> [effs[k] EXCEPT !.cancelled = TRUE]]

\* a bug-variant of the cache-hit test that serves the cache in both modes
CacheHitAnyMode(offV, cache, key) == InCache(cache, key)

\* the cache-hit test of the page-load effect
CacheHit(offV, cache, key) == ~offV /\ InCache(cache, key)

\* a dependency of the page-load effect changed: the cleanup of the previous run, then
\* the new run up to its first await (setLoading(true), setError("")), or on a cache hit
\* to its return (setLoading(false)) and its finally block. The timeout of a run that
\* the cleanup has cancelled does nothing when it fires, so only the timeout of the
\* current run is kept
RunEffect(offV, pageV, flt, dirV, effs, rowsV) ==
  LET key == CacheKey(pageV, pageSize, sortBy, dirV, flt)
  IN /\ error' = FALSE
     /\ failed' = FALSE
     /\ IF CacheHit(offV, pageCache, key)
          THEN /\ rows' = CachedRows(pageCache, key)
               /\ effects' = Cleanup(effs)
               /\ loading' = FALSE
               /\ loadingTimer' = TRUE
          ELSE /\ rows' = rowsV
               /\ effects' = Append(Cleanup(effs), NewEffect(offV, pageV, flt, dirV))
               /\ loading' = TRUE
               /\ loadingTimer' = FALSE

\* the clamp effect after totalCount became tc: if (page > totalPages) setPage(totalPages),
\* run when totalPages changed
Clamped(pageV, tcOld, tc) ==
  IF TotalPages(tc) # TotalPages(tcOld) /\ pageV > TotalPages(tc)
    THEN TotalPages(tc) ELSE pageV

\* a bug-variant of the fence that lets every response through
NeverFenced(e) == FALSE

\* if (cancelled) return
Fenced(e) == e.cancelled

\* the count of the effect's mode: getCountFromIDB or GET /comp/count
CountOf(e) ==
  IF e.off THEN GetCountFromIDB(idb, e.F)
           ELSE RemoteCount(remote, Params(e.page, e.pageSize, e.dir, e.F))

\* the pages the effect's adapter can answer: getPageFromIDB or GET /comp
PagesOf(e) ==
  IF e.off THEN {GetPageFromIDB(idb, LocalQuery(e.page, e.pageSize, e.dir, e.F))}
           ELSE RemotePages(remote, Params(e.page, e.pageSize, e.dir, e.F))

\* the count request of run i answers
CountResp(i) ==
  /\ effects[i].pc = "count"
  /\ IF Fenced(effects[i])
       THEN /\ effects' = RemoveAt(effects, i)
            /\ discarded' = (discarded \/ DescOf(effects[i]) # CurDesc)
            /\ UNCHANGED <<page, rows, totalCount, error, staleApplied, loadVars>>
       ELSE LET tc == CountOf(effects[i])
                awaiting == [effects EXCEPT ![i].pc = "data"]
            IN /\ totalCount' = tc
               /\ staleApplied' = (staleApplied \/ DescOf(effects[i]) # CurDesc)
               /\ UNCHANGED discarded
               /\ page' = Clamped(page, totalCount, tc)
               /\ IF page' # page
                    THEN RunEffect(offline, page', debounced,
                                   EffSortDir(sortBy, sortDir, ""), awaiting, rows)
                    ELSE effects' = awaiting /\ UNCHANGED <<rows, error, loadVars>>
  /\ UNCHANGED <<remote, idb, hist, authVars, offline, filters, sortDir, debounced, timer, pageCache,
                 inputs, jobVars>>

\* the data request of run i answers
DataResp(i) ==
  /\ effects[i].pc = "data"
  /\ IF Fenced(effects[i])
       THEN /\ discarded' = (discarded \/ DescOf(effects[i]) # CurDesc)
            /\ UNCHANGED <<rows, pageCache, staleApplied, loadingTimer>>
       ELSE \E rowsData \in PagesOf(effects[i]) :
              /\ UNCHANGED discarded
              /\ loadingTimer' = TRUE
              /\ rows' = rowsData
              /\ pageCache' = IF effects[i].off THEN pageCache
                              ELSE CachePut(pageCache, effects[i].key, rowsData)
              /\ staleApplied' = (staleApplied \/ DescOf(effects[i]) # CurDesc)
  /\ effects' = RemoveAt(effects, i)
  /\ UNCHANGED <<remote, idb, hist, authVars, offline, filters, sortDir, page, debounced, timer,
                 totalCount, error, inputs, loading, failed, jobVars>>

\* a request of run i is rejected: the catch block, which does not test cancelled,
\* then the finally block, whose timeout does
FetchFailed(i) ==
  /\ totalCount' = 0
  /\ page' = Clamped(page, totalCount, 0)
  /\ IF page' # page
       THEN RunEffect(offline, page', debounced, EffSortDir(sortBy, sortDir, ""),
                      RemoveAt(effects, i), <<>>)
       ELSE /\ error' = TRUE
            /\ rows' = <<>>
            /\ effects' = RemoveAt(effects, i)
            /\ failed' = (failed \/ ~effects[i].cancelled)
            /\ loadingTimer' = (loadingTimer \/ ~effects[i].cancelled)
            /\ UNCHANGED loading
  /\ UNCHANGED <<remote, idb, hist, authVars, offline, filters, sortDir, debounced, timer, pageCache,
                 staleApplied, discarded, inputs, jobVars>>

\* setF(k, v): setFilters; setPage(1), and the timeout of useDebouncedValue restarts
SetFilter(v) ==
  /\ v # filters["Company_Name"]
  /\ filters' = [filters EXCEPT !["Company_Name"] = v]
  /\ timer' = TRUE
  /\ page' = 1
  /\ IF page # 1
       THEN RunEffect(offline, 1, debounced, EffSortDir(sortBy, sortDir, ""), effects, rows)
       ELSE UNCHANGED <<rows, error, effects, loadVars>>
  /\ inputs' = inputs + 1
  /\ UNCHANGED <<remote, idb, hist, authVars, offline, sortDir, debounced, totalCount, pageCache,
                 staleApplied, discarded, jobVars>>

\* the timeout of useDebouncedValue fires: setV(value)
DebounceFired ==
  /\ timer
  /\ timer' = FALSE
  /\ debounced' = filters
  /\ RunEffect(offline, page, filters, EffSortDir(sortBy, sortDir, ""), effects, rows)
  /\ UNCHANGED <<remote, idb, hist, authVars, offline, filters, sortDir, page, totalCount, pageCache,
                 staleApplied, discarded, inputs, jobVars>>

\* a Pager button or the go-to form: setPage(n) with 1 <= n <= totalPages
GoToPage(n) ==
  /\ n \in 1..TotalPages(totalCount) /\ n # page
  /\ page' = n
  /\ RunEffect(offline, n, debounced, EffSortDir(sortBy, sortDir, ""), effects, rows)
  /\ inputs' = inputs + 1
  /\ UNCHANGED <<remote, idb, hist, authVars, offline, filters, sortDir, debounced, timer, totalCount,
                 pageCache, staleApplied, discarded, jobVars>>

\* toggleSort(sortBy) on the current sort column: the direction flips; setPage(1)
ToggleSort ==
  /\ sortDir' = IF sortDir = "asc" THEN "desc" ELSE "asc"
  /\ page' = 1
  /\ RunEffect(offline, 1, debounced, EffSortDir(sortBy, sortDir', ""), effects, rows)
  /\ inputs' = inputs + 1
  /\ UNCHANGED <<remote, idb, hist, authVars, offline, filters, debounced, timer, totalCount,
                 pageCache, staleApplied, discarded, jobVars>>

\* a bug-variant of the offline checkbox that is disabled while a bulk job runs
ToggleDisabledWhileBusy == syncing

\* the offline checkbox has no disabled attribute
ToggleDisabled == FALSE

\* the offline checkbox: setOffline(checked); setPage(1)
ToggleOffline ==
  /\ ~ToggleDisabled
  /\ offline' = ~offline
  /\ page' = 1
  /\ RunEffect(offline', 1, debounced, EffSortDir(sortBy, sortDir, ""), effects, rows)
  /\ inputs' = inputs + 1
  /\ UNCHANGED <<remote, idb, hist, authVars, filters, sortDir, debounced, timer, totalCount,
                 pageCache, staleApplied, discarded, jobVars>>

\* the timeout of the finally block fires: !cancelled && setLoading(false)
LoadingOff ==
  /\ loadingTimer
  /\ loadingTimer' = FALSE
  /\ loading' = FALSE
  /\ UNCHANGED <<remote, idb, hist, authVars, offline, filters, sortDir, viewVars, failed,
                 jobVars>>

\* the page view after page fetches that failed: nothing shown, nothing cached, no run
\* of the page-load effect suspended
ViewFailed ==
  /\ page = 1
  /\ debounced = filters
  /\ timer = FALSE
  /\ rows = <<>>
  /\ totalCount = 0
  /\ error = TRUE
  /\ pageCache = {}
  /\ effects = <<>>
  /\ staleApplied = FALSE
  /\ discarded = FALSE
  /\ inputs = 0
  /\ loading = FALSE
  /\ loadingTimer = FALSE
  /\ failed = TRUE

-----------------------------------------------------------------------------
(* The sessions *)

\* a session over some remote table and some store left on the device, with the
\* filters and the mode the user has chosen, no bulk job started yet
BulkInit ==
  /\ remote \in RemoteTables
  /\ idb \in InitStores
  /\ hist = <<>>
  /\ AuthIdle
  /\ syncing = FALSE
  /\ syncMsg = ""
  /\ offline \in BOOLEAN
  /\ filters \in [FilterCols -> Patterns]
  /\ sortDir = "asc"
  /\ ViewFailed
  /\ jobs = <<>>
  /\ started = 0
  /\ log = NoLog
  /\ cancelRequested = FALSE
  /\ afterCancel = 0

\* a click can start a job while fewer than MaxStarts have been started
CanStart == started < MaxStarts /\ Len(jobs) < MaxRunning

BulkNext ==
  \/ CanStart /\ StartSync
  \/ CanStart /\ StartExport
  \/ \E i \in DOMAIN jobs : SyncCleared(i)
  \/ \E i \in DOMAIN jobs : SyncCounted(i)
  \/ \E i \in DOMAIN jobs : SyncFetched(i)
  \/ \E i \in DOMAIN jobs : SyncUpserted(i)
  \/ \E i \in DOMAIN jobs : SyncFailed(i)
  \/ \E i \in DOMAIN jobs : ExportCounted(i)
  \/ \E i \in DOMAIN jobs : ExportFetched(i)
  \/ \E i \in DOMAIN jobs : ExportFailed(i)

\* the bulk jobs of one session over a stable remote table
SpecBulk == BulkInit /\ [][BulkNext]_vars

\* an awaited call of a running job returns or fails
JobStep ==
  \E i \in DOMAIN jobs :
    \/ SyncFailed(i) \/ ExportFailed(i)
    \/ SyncCleared(i) \/ SyncCounted(i) \/ SyncFetched(i) \/ SyncUpserted(i)
    \/ ExportCounted(i) \/ ExportFetched(i)

\* the bulk jobs when every awaited call eventually returns or fails
SpecBulkFair == SpecBulk /\ WF_vars(JobStep)

-----------------------------------------------------------------------------
(* The sync over a remote table that other clients change while the sync runs *)

\* the contents the remote table can take: the tables of the sessions, an empty table
\* and a table of five rows
ChurnTables == RemoteTables \cup {<<>>, <<R1, R3, R2, R7, R8>>}

\* rows are inserted into or deleted from the remote table
RemoteChanged ==
  /\ \E t \in ChurnTables : t # remote /\ remote' = t
  /\ UNCHANGED <<idb, hist, authVars, offline, filters, sortDir, viewVars, loadVars, jobVars>>

ChurnNext ==
  \/ CanStart /\ StartSync
  \/ \E i \in DOMAIN jobs : SyncCleared(i)
  \/ \E i \in DOMAIN jobs : SyncCounted(i)
  \/ \E i \in DOMAIN jobs : SyncFetched(i)
  \/ \E i \in DOMAIN jobs : SyncUpserted(i)
  \/ \E i \in DOMAIN jobs : SyncFailed(i)
  \/ RemoteChanged

SpecChurn == BulkInit /\ [][ChurnNext]_vars

-----------------------------------------------------------------------------
(* The upsert harness: upsertRows called on batches of the row universe *)

UpsertCall(b) ==
  /\ Len(hist) < MaxUpserts
  /\ idb' = UpsertRows(idb, b)
  /\ hist' = Append(hist, [rows |-> b, before |-> idb, after |-> idb'])
  /\ UNCHANGED <<viewVars, loadVars, authVars, remote, syncing, syncMsg, offline, filters, sortDir, jobs, started, log,
                 cancelRequested, afterCancel>>

UpsertInit ==
  /\ remote = <<>>
  /\ idb \in InitStores
  /\ hist = <<>>
  /\ AuthIdle
  /\ syncing = FALSE
  /\ syncMsg = ""
  /\ offline = FALSE
  /\ filters = [c \in FilterCols |-> <<>>]
  /\ sortDir = "asc"
  /\ ViewFailed
  /\ jobs = <<>>
  /\ started = 0
  /\ log = NoLog
  /\ cancelRequested = FALSE
  /\ afterCancel = 0

UpsertNext == \E b \in Batches : UpsertCall(b)

SpecUpsert == UpsertInit /\ [][UpsertNext]_vars

-----------------------------------------------------------------------------
(* The adapter harness: the two endpoints and the two readers of idb.jsx called on
   a request over some table and some store; hist holds the call *)

RawSizes == {Null, <<"a", "b">>, <<"0">>, <<"-", "3">>, <<"1">>, <<"2">>, <<"3">>,
             <<"1", "0", "0", "0", "1">>}

RawPages == {Null, <<"b">>, <<"0">>, <<"1">>, <<"2">>, <<"3">>}

RawSortBys == {Absent, Str("DROP TABLE"), Str("Address"), Str("Company_Name"),
               Arr("Address")}

RawSortDirs == {Absent, Str(<<"d", "e", "s", "c">>), Str(<<"D", "E", "S", "C">>),
                Str(<<"a", "s", "c">>), Str(<<"s">>)}

QueryPatterns == {Null, <<>>, <<" ">>, <<"a">>, <<"B">>, <<"_">>}

\* requests that vary the pagination and the filter, and requests that vary the sort
CompRequests ==
  {[page |-> pg, pageSize |-> sz, sortBy |-> Absent, sortDir |-> Absent,
    Company_Name |-> pat] : pg \in RawPages, sz \in RawSizes, pat \in QueryPatterns}
  \cup
  {[page |-> Null, pageSize |-> <<"3">>, sortBy |-> sb, sortDir |-> sd,
    Company_Name |-> pat] : sb \in RawSortBys, sd \in RawSortDirs, pat \in {Null, <<"a">>}}

\* the descriptors handed to getPageFromIDB
LocalRequests ==
  {[page |-> pg, pageSize |-> sz, sortBy |-> sb, sortDir |-> sd,
    filters |-> [Company_Name |-> pat]] :
     pg \in 1..3, sz \in 1..3, sb \in {"Company_Name", "Address"},
     sd \in {"asc", "desc", "ASC", "s"}, pat \in QueryPatterns}

QueryStores == {{}, UpsertRows({}, <<R1, R3>>), UpsertRows({}, <<R1, R3, R2, R7>>)}

harnessIdle == <<viewVars, loadVars, authVars, remote, idb, offline, filters, sortDir, jobVars>>

CallGetComp(req) ==
  /\ hist = <<>>
  /\ \E res \in GetComp(remote, req) :
       hist' = <<[op |-> "comp", req |-> req, res |-> res]>>
  /\ UNCHANGED harnessIdle

CallGetCompCount(req) ==
  /\ hist = <<>>
  /\ hist' = <<[op |-> "count", req |-> req, res |-> GetCompCount(remote, req)]>>
  /\ UNCHANGED harnessIdle

CallGetPageFromIDB(q) ==
  /\ hist = <<>>
  /\ hist' = <<[op |-> "page", req |-> q,
                res |-> [status |-> 200, rows |-> GetPageFromIDB(idb, q)]]>>
  /\ UNCHANGED harnessIdle

CallGetCountFromIDB(q) ==
  /\ hist = <<>>
  /\ hist' = <<[op |-> "idbcount", req |-> q,
                res |-> [status |-> 200, count |-> GetCountFromIDB(idb, q.filters)]]>>
  /\ UNCHANGED harnessIdle

QueryInit ==
  /\ remote \in RemoteTables
  /\ idb \in QueryStores
  /\ hist = <<>>
  /\ AuthIdle
  /\ syncing = FALSE
  /\ syncMsg = ""
  /\ offline = FALSE
  /\ filters = [c \in FilterCols |-> <<>>]
  /\ sortDir = "asc"
  /\ ViewFailed
  /\ jobs = <<>>
  /\ started = 0
  /\ log = NoLog
  /\ cancelRequested = FALSE
  /\ afterCancel = 0

QueryNext ==
  \/ \E req \in CompRequests : CallGetComp(req)
  \/ \E req \in CompRequests : CallGetCompCount(req)
  \/ \E q \in LocalRequests : CallGetPageFromIDB(q)
  \/ \E q \in LocalRequests : CallGetCountFromIDB(q)

SpecQuery == QueryInit /\ [][QueryNext]_vars

-----------------------------------------------------------------------------
(* The local reader harness: the readers of idb.jsx called on stores whose rows hold
   numbers, numeric strings and alias keys; hist holds the call *)

\* the mapping of a column to the keys accepted for it
COL_KEYS ==
  ("Father_or_Husband_First Name" :>
      <<"Father_or_Husband_First Name", "Father_or_Husband_First_Name">>)
  @@ ("No_of_Shares" :> <<"No_of_Shares", "No_of_share", "no_of_shares", "NO_OF_SHARES">>)
  @@ ("Valuation" :> <<"Valuation", "Valutation", "valuation", "valutation", "VALUATION">>)
  @@ ("Case" :> <<"Case", "case", "CASE">>)
  @@ [c \in {BASE_COLS[n] : n \in 1..Len(BASE_COLS)} |-> <<c>>]

\* valueOf(row, col): the first accepted key that holds a value, "" if none does
ValueOf(row, col) ==
  LET keys == IF col \in DOMAIN COL_KEYS THEN COL_KEYS[col] ELSE <<col>>
      found == SelectSeq(keys, LAMBDA k : ~IsNullish(Field(row, k)))
  IN IF found = <<>> THEN <<>> ELSE Field(row, Head(found))

\* a row with the field No_of_Shares
WithShares(r, v) == [No_of_Shares |-> v] @@ r

\* a row with one more field
WithField(r, k, v) == (k :> v) @@ r

\* rows whose No_of_Shares are the numeric strings "9" and "10", and a row without
NumericStringStore ==
  UpsertRows({}, <<WithShares(R1, <<"9">>), WithShares(R2, <<"1", "0">>), R7>>)

\* rows whose No_of_Shares are the numbers 9 and 10, and a row without
NumberStore == UpsertRows({}, <<WithShares(R1, Number(9)), WithShares(R2, Number(10)), R7>>)

\* a row that holds its Case under the key case, and two rows that hold it under Case
AliasStore ==
  UpsertRows({}, <<WithField(R1, "case", <<"a">>), WithField(R2, "Case", <<"a">>),
                   WithField(R7, "Case", <<"b">>)>>)

LocalStores ==
  {UpsertRows({}, <<R1, R3, R2, R7>>), NumericStringStore, NumberStore, AliasStore}

LocalPatterns == {<<>>, <<"a">>}

\* the descriptors of the page view in local mode: a sort column, a direction and the
\* filters of two columns
LocalDescriptors ==
  {[page |-> pg, pageSize |-> sz, sortBy |-> sb, sortDir |-> sd,
    filters |-> [Company_Name |-> p1, Case |-> p2]] :
     pg \in 1..2, sz \in 1..(pageSize + 1), sb \in {"Company_Name", "No_of_Shares", "Case"},
     sd \in {"asc", "desc"}, p1 \in LocalPatterns, p2 \in LocalPatterns}

\* a consumer that pages through the store: getCountFromIDB, then getPageFromIDB for
\* the pages 1 .. ceil(n / pageSize) of the descriptor
CallDrainIDB(q) ==
  /\ hist = <<>>
  /\ LET n == GetCountFromIDB(idb, q.filters)
     IN hist' = <<[op |-> "drain", req |-> q,
                   res |-> [status |-> 200, count |-> n,
                            pages |-> [k \in 1..CeilDiv(n, q.pageSize) |->
                                         GetPageFromIDB(idb, [q EXCEPT !.page = k])]]]>>
  /\ UNCHANGED harnessIdle

LocalInit ==
  /\ remote = <<>>
  /\ idb \in LocalStores
  /\ hist = <<>>
  /\ AuthIdle
  /\ syncing = FALSE
  /\ syncMsg = ""
  /\ offline = TRUE
  /\ filters = [c \in FilterCols |-> <<>>]
  /\ sortDir = "asc"
  /\ ViewFailed
  /\ jobs = <<>>
  /\ started = 0
  /\ log = NoLog
  /\ cancelRequested = FALSE
  /\ afterCancel = 0

LocalNext ==
  \/ \E q \in LocalDescriptors : CallGetPageFromIDB(q)
  \/ \E q \in LocalDescriptors : CallGetCountFromIDB(q)
  \/ \E q \in LocalDescriptors : CallDrainIDB(q)

SpecLocal == LocalInit /\ [][LocalNext]_vars

-----------------------------------------------------------------------------
(* Scenario: sync, then an export in local mode, then an export in remote mode, all
   with the filters chosen before the sync; no request fails *)

ConvergeNext ==
  \/ log.sync.outcome = "none" /\ StartSync
  \/ \E i \in DOMAIN jobs : SyncCleared(i)
  \/ \E i \in DOMAIN jobs : SyncCounted(i)
  \/ \E i \in DOMAIN jobs : SyncFetched(i)
  \/ \E i \in DOMAIN jobs : SyncUpserted(i)
  \/ log.sync.outcome = "ok" /\ log.local.outcome = "none" /\ ~offline /\ ToggleOffline
  \/ log.sync.outcome = "ok" /\ log.local.outcome = "none" /\ offline /\ StartExport
  \/ log.local.outcome = "ok" /\ log.remoteX.outcome = "none" /\ offline /\ ToggleOffline
  \/ log.local.outcome = "ok" /\ log.remoteX.outcome = "none" /\ ~offline /\ StartExport
  \/ \E i \in DOMAIN jobs : ExportCounted(i)
  \/ \E i \in DOMAIN jobs : ExportFetched(i)
  \/ \E i \in DOMAIN effects : CountResp(i)
  \/ \E i \in DOMAIN effects : DataResp(i)

SpecConverge == BulkInit /\ [][ConvergeNext]_vars

-----------------------------------------------------------------------------
(* The page view of one session: the App mounts in remote mode and fetches page 1;
   under React.StrictMode a development build runs the effect, its cleanup, and the
   effect again *)

MountEffect == NewEffect(FALSE, 1, [c \in FilterCols |-> <<>>], "asc")

PageInit ==
  /\ remote = <<R1, R3, R2, R7>>
  /\ idb = UpsertRows({}, <<R1, R3>>)
  /\ hist = <<>>
  /\ AuthIdle
  /\ offline = FALSE
  /\ filters = [c \in FilterCols |-> <<>>]
  /\ sortDir = "asc"
  /\ page = 1
  /\ debounced = filters
  /\ timer = FALSE
  /\ rows = <<>>
  /\ totalCount = 0
  /\ error = FALSE
  /\ pageCache = {}
  /\ effects \in {<<MountEffect>>, Cleanup(<<MountEffect>>) \o <<MountEffect>>}
  /\ staleApplied = FALSE
  /\ discarded = FALSE
  /\ inputs = 0
  /\ loading = TRUE
  /\ loadingTimer = FALSE
  /\ failed = FALSE
  /\ syncing = FALSE
  /\ syncMsg = ""
  /\ jobs = <<>>
  /\ started = 0
  /\ log = NoLog
  /\ cancelRequested = FALSE
  /\ afterCancel = 0

\* the user can make an input while fewer than MaxInputs have been made
CanInput == inputs < MaxInputs

PageNext ==
  \/ CanInput /\ \E v \in Patterns : SetFilter(v)
  \/ CanInput /\ \E n \in 1..TotalPages(totalCount) : GoToPage(n)
  \/ CanInput /\ ToggleSort
  \/ CanInput /\ ToggleOffline
  \/ DebounceFired
  \/ \E i \in DOMAIN effects : CountResp(i)
  \/ \E i \in DOMAIN effects : DataResp(i)
  \/ \E i \in DOMAIN effects : FetchFailed(i)
  \/ LoadingOff

SpecPage == PageInit /\ [][PageNext]_vars

\* an outstanding request of a run of the page-load effect is answered or rejected
RespStep ==
  \E i \in DOMAIN effects : FetchFailed(i) \/ CountResp(i) \/ DataResp(i)

\* the page view with timeouts that fire and an adapter that answers every request
SpecPageFair ==
  SpecPage /\ WF_vars(DebounceFired) /\ WF_vars(RespStep) /\ WF_vars(LoadingOff)

-----------------------------------------------------------------------------
(* The page view and one bulk job in the same session: the user changes the page and
   the mode while the page fetches and the job run *)

SessionNext ==
  \/ CanInput /\ \E n \in 1..TotalPages(totalCount) : GoToPage(n)
  \/ CanInput /\ ToggleOffline
  \/ \E i \in DOMAIN effects : CountResp(i)
  \/ \E i \in DOMAIN effects : DataResp(i)
  \/ log.last = "none" /\ StartSync
  \/ log.last = "none" /\ StartExport
  \/ JobStep
  \/ LoadingOff

SpecSession == PageInit /\ [][SessionNext]_vars

-----------------------------------------------------------------------------
(* The credential check: users sign up, are approved, removed and deleted, log in and
   ask for reset links, while requests with any header arrive at the data endpoints *)

AuthInit ==
  /\ remote = <<R6, R7>>
  /\ idb = {}
  /\ hist = <<>>
  /\ AuthIdle
  /\ syncing = FALSE
  /\ syncMsg = ""
  /\ offline = FALSE
  /\ filters = [c \in FilterCols |-> <<>>]
  /\ sortDir = "asc"
  /\ ViewFailed
  /\ jobs = <<>>
  /\ started = 0
  /\ log = NoLog
  /\ cancelRequested = FALSE
  /\ afterCancel = 0

\* the people who sign up and log in while the data endpoints are called
StaffEmails == {ADMIN_EMAIL, StaffEmail}

AuthNext ==
  \/ \E email \in StaffEmails : PostSignup(email)
  \/ SignupChecked
  \/ SignupInserted
  \/ \E u \in Uids : Approve(u)
  \/ \E u \in Uids : Remove(u)
  \/ \E email \in StaffEmails : PostLogin(email, PasswordOf(email))
  \/ LoginSelected
  \/ LoginAnswered
  \/ \E u \in Uids : Forgot(u)
  \/ \E hdr \in AdminHeaders : \E id \in Uids : PostDelete(hdr, id)
  \/ DeleteHandled
  \/ \E ep \in {"comp", "count"} : \E hdr \in SentHeaders : Arrive(ep, hdr)
  \/ RequireAuth
  \/ Handler

SpecAuth == AuthInit /\ [][AuthNext]_vars

-----------------------------------------------------------------------------
(* The account routes with two clients that sign up at the same time *)

AccountNext ==
  \/ \E email \in Emails \cup {NoEmail} : PostSignup(email)
  \/ SignupChecked
  \/ SignupInserted
  \/ \E email \in Emails : RivalChecked(email)
  \/ RivalInserted
  \/ \E u \in Uids : Approve(u)
  \/ \E u \in Uids : Remove(u)
  \/ \E email \in Emails \cup {NoEmail} : \E password \in Passwords :
       PostLogin(email, password)
  \/ LoginSelected
  \/ LoginAnswered
  \/ \E u \in Uids : Forgot(u)
  \/ \E hdr \in AdminHeaders : \E id \in DeleteIds : PostDelete(hdr, id)
  \/ DeleteHandled

SpecAccounts == AuthInit /\ [][AccountNext]_vars

-----------------------------------------------------------------------------
(* The bulk jobs with a user who may ask to cancel the running job *)

CancelNext == BulkNext \/ RequestCancel

SpecCancel == BulkInit /\ [][CancelNext]_vars

-----------------------------------------------------------------------------
(* Properties *)

\* the store that results from upserting the chunks in order into an empty store
RECURSIVE StoreOf(_)
StoreOf(chunks) ==
  IF chunks = <<>> THEN {}
  ELSE UpsertRows(StoreOf(SubSeq(chunks, 1, Len(chunks) - 1)), chunks[Len(chunks)])

\* the rows of a list as a set, without the rowKey the store adds
RowSet(batch) == {Content(batch[k]) : k \in 1..Len(batch)}

\* the number of rows of the remote table that the filters F of a job match
MatchCount(F) == Len(Matching(remote, F))

\* C1: request fencing of page fetches: a successful count or data response of a page
\* fetch is applied to the visible rows, the visible total count or the page cache only
\* while the descriptor the fetch was issued for is the current descriptor; the
\* responses of a superseded fetch are dropped
C1_RequestFencing ==
  /\ ~staleApplied
  /\ \A i \in DOMAIN effects : ~effects[i].cancelled => DescOf(effects[i]) = CurDesc

\* C1 witness: a response of a superseded fetch arrived and was dropped, and the rows of
\* the fetch that superseded it are shown and cached
C1_Witness ==
  /\ discarded /\ inputs > 0 /\ effects = <<>> /\ ~error
  /\ rows # <<>> /\ InCache(pageCache, CacheKey(page, pageSize, sortBy, sortDir, debounced))
  /\ CachedRows(pageCache, CacheKey(page, pageSize, sortBy, sortDir, debounced)) = rows

\* C2: at most one bulk job (sync or export) is in progress in any reachable state,
\* and the busy flag syncing is set while it is
C2_OneBulkJob == Len(jobs) <= 1 /\ (jobs # <<>> => syncing)

\* C2 witness: a second job is in its chunk loop with the start buttons disabled
C2_Witness ==
  /\ Len(jobs) = 1 /\ jobs[1].pc = "fetch" /\ ButtonsDisabled
  /\ started = 2

\* C3: after a successful sync with filters F, an export in local mode and an export in
\* remote mode with the same F and sort yield the same set of rows
C3_Convergence ==
  (/\ log.sync.outcome = "ok" /\ log.local.outcome = "ok" /\ log.remoteX.outcome = "ok"
   /\ log.local.F = log.sync.F /\ log.remoteX.F = log.sync.F
   /\ log.local.dir = log.remoteX.dir)
  => RowSet(log.local.rows) = RowSet(log.remoteX.rows)

\* C4: a successful sync over N > 0 matching rows has requested the pages 1, 2, ... in
\* order, made exactly ceil(N / bulkSize) chunk fetches of bulkSize rows (the last one
\* of the remainder), upserted every fetched chunk and reports fetched = total = N
C4_SyncChunking ==
  log.sync.outcome = "ok" =>
    LET s == log.sync
        N == MatchCount(s.F)
        n == CeilDiv(N, bulkSize)
    IN /\ N > 0
       /\ s.total = N /\ s.fetched = N
       /\ s.pages = [k \in 1..n |-> k]
       /\ Len(s.chunks) = n
       /\ \A k \in 1..n :
            Len(s.chunks[k]) = IF k * bulkSize <= N THEN bulkSize ELSE N - (k - 1) * bulkSize

\* C4 witness: a sync that ended after more than one chunk, the last one short
C4_Witness ==
  /\ log.sync.outcome = "ok" /\ Len(log.sync.chunks) >= 2
  /\ Len(log.sync.chunks[Len(log.sync.chunks)]) < bulkSize

\* C5: when the count request, a chunk fetch or a chunk upsert of a sync fails, the job
\* is over at once, the failure message is shown, the busy flag is released and the
\* store holds exactly the chunks upserted before the failure
C5_SyncFailure ==
  (log.last = "sync" /\ log.sync.outcome = "failed" /\ log.sync.pc # "clear") =>
    /\ jobs = <<>>
    /\ syncMsg = "failed"
    /\ ~syncing
    /\ idb = StoreOf(log.sync.chunks)
    /\ Len(log.sync.pages) <= Len(log.sync.chunks) + 1

\* C5 witness: a sync failed in the chunk loop after a chunk had been upserted
C5_Witness ==
  /\ log.last = "sync" /\ log.sync.outcome = "failed"
  /\ log.sync.pc = "fetch" /\ Len(log.sync.chunks) >= 1

\* C6: after a successful sync the store is the result of upserting the fetched chunks
\* into an empty store, whatever it held when the sync started
C6_SyncFromScratch ==
  log.sync.outcome = "ok" => idb = StoreOf(log.sync.chunks)

\* C6 witness: a successful sync that started on a store with rows in it
C6_Witness ==
  log.sync.outcome = "ok" /\ log.sync.hadRows /\ Len(log.sync.chunks) >= 1

\* C7: a sync whose count is 0 ends successfully without a chunk fetch and without an
\* upsert, leaves the store empty and releases the busy flag
C7_SyncNothing ==
  log.sync.outcome = "nothing" =>
    /\ log.sync.total = 0
    /\ log.sync.pages = <<>> /\ log.sync.chunks = <<>>
    /\ idb = {}
    /\ log.last = "sync" => (jobs = <<>> /\ ~syncing /\ syncMsg = "nothing")

\* C7 witness: a sync with count 0 that started on a store with rows in it
C7_Witness ==
  log.last = "sync" /\ log.sync.outcome = "nothing" /\ log.sync.hadRows

\* C8: once cancellation of a running sync or export is requested, its loop fetches no
\* further chunk (at most the request in flight completes)
C8_Cancellation == afterCancel <= 1

\* C9: calling upsertRows a second time with the same batch leaves the store as the
\* first call left it
C9_UpsertIdempotent ==
  \A k \in 1..(Len(hist) - 1) :
    hist[k + 1].rows = hist[k].rows => hist[k + 1].after = hist[k].after

\* C9 witness: a batch of two rows that changed the store was upserted twice
C9_Witness ==
  \E k \in 1..(Len(hist) - 1) :
    /\ hist[k + 1].rows = hist[k].rows
    /\ Len(hist[k].rows) = 2
    /\ hist[k].after # hist[k].before

\* C10: the same row content always gets the same Row Key, so the store never holds
\* two entries with the same content
C10_RowKeyStable ==
  \A x, y \in idb : Content(x) = Content(y) => x.rowKey = y.rowKey

-----------------------------------------------------------------------------
(* Properties of the adapters, on the last call of the adapter harness *)

\* the Company_Name pattern of a call
PatternOf(c) ==
  IF c.op \in {"comp", "count"} THEN c.req.Company_Name ELSE c.req.filters.Company_Name

\* the rows the adapter of a call reads from
SourceOf(c) ==
  IF c.op \in {"comp", "count"} THEN remote ELSE SetToSortedSeq(idb)

IsBlank(P) == IsNullish(P) \/ TrimIsEmpty(P)

\* lowercase(P) is a substring of the lowercase of the row's Company_Name
Contains(r, P) ==
  Includes(ToLowerCase(StrOrEmpty(Field(r, "Company_Name"))), ToLowerCase(P))

\* C11: filter soundness for both adapters: with a non-blank pattern P, every row that
\* GET /comp or getPageFromIDB returns contains P case-insensitively in the filtered
\* column, and GET /comp/count and getCountFromIDB return the number of stored rows
\* that do
C11_FilterSoundness ==
  hist # <<>> /\ ~IsBlank(PatternOf(hist[1])) /\ hist[1].res.status = 200 =>
    LET c == hist[1] IN
      IF c.op \in {"comp", "page"}
        THEN \A i \in 1..Len(c.res.rows) : Contains(c.res.rows[i], PatternOf(c))
        ELSE c.res.count =
               Len(SelectSeq(SourceOf(c), LAMBDA r : Contains(r, PatternOf(c))))

\* the request of a call with the Company_Name filter left out
Without(c) ==
  IF c.op \in {"comp", "count"} THEN [c.req EXCEPT !.Company_Name = Null]
  ELSE [c.req EXCEPT !.filters.Company_Name = Null]

\* C12: a blank pattern (absent, empty or white space only) imposes no constraint in
\* either adapter: count and fetchPage answer as with the filter left out
C12_BlankPatterns ==
  hist # <<>> /\ IsBlank(PatternOf(hist[1])) =>
    LET c == hist[1] IN
      CASE c.op = "comp" -> c.res \in GetComp(remote, Without(c))
        [] c.op = "count" -> c.res = GetCompCount(remote, Without(c))
        [] c.op = "page" -> c.res.rows = GetPageFromIDB(idb, Without(c))
        [] c.op = "idbcount" -> c.res.count = GetCountFromIDB(idb, Without(c).filters)

\* the page and the page size of the descriptor of a call
DescPage(c) == IF c.op = "page" THEN Num(c.req.page) ELSE ParseInt(StrOrEmpty(c.req.page))

DescPageSize(c) ==
  IF c.op = "page" THEN Num(c.req.pageSize) ELSE ParseInt(StrOrEmpty(c.req.pageSize))

\* a fetchPage call on a valid descriptor: page >= 1 and pageSize in [1, 10000]
ValidFetch(c) ==
  /\ c.op \in {"comp", "page"}
  /\ ~DescPage(c).nan /\ DescPage(c).n >= 1
  /\ ~DescPageSize(c).nan /\ DescPageSize(c).n \in 1..MaxPageSize

\* the rows of the source that the adapter of a fetchPage call selects
MatchingOf(c) ==
  IF c.op = "comp" THEN Matching(remote, QueryOf(c.req))
  ELSE CursorMatches(idb, c.req.filters)

\* the adapter of a fetchPage call sorts x strictly before y
BeforeOf(c, x, y) ==
  IF c.op = "comp" THEN SqlBefore(x, y, QueryOf(c.req)) ELSE IdbBefore(x, y, c.req)

\* C13: page size bound: fetchPage on a valid descriptor returns at most
\* descriptor.pageSize rows, for GET /comp and for getPageFromIDB
C13_PageSizeBound ==
  hist # <<>> /\ ValidFetch(hist[1]) =>
    /\ hist[1].res.status = 200
    /\ Len(hist[1].res.rows) <= DescPageSize(hist[1]).n

\* C13 witness: GET /comp returned exactly pageSize rows of more matching rows
C13_Witness ==
  /\ hist # <<>> /\ ValidFetch(hist[1]) /\ hist[1].op = "comp"
  /\ Len(hist[1].res.rows) = DescPageSize(hist[1]).n
  /\ Len(MatchingOf(hist[1])) > DescPageSize(hist[1]).n

\* C14: page windows: over N matching rows with page size S, fetchPage for page
\* k <= ceil(N / S) returns min(S, N - (k - 1) * S) rows, and the row at place j of the
\* page stands at position (k - 1) * S + j of the sorted matching set
C14_PageWindows ==
  hist # <<>> /\ ValidFetch(hist[1]) =>
    LET c == hist[1]
        M == MatchingOf(c)
        N == Len(M)
        S == DescPageSize(c).n
        k == DescPage(c).n
        left == N - (k - 1) * S
        before(r) == Cardinality({i \in 1..N : BeforeOf(c, M[i], r)})
        notAfter(r) == Cardinality({i \in 1..N : ~BeforeOf(c, r, M[i])})
    IN k <= CeilDiv(N, S) =>
         /\ Len(c.res.rows) = (IF left < S THEN left ELSE S)
         /\ \A j \in 1..Len(c.res.rows) :
              /\ \E i \in 1..N : M[i] = c.res.rows[j]
              /\ before(c.res.rows[j]) < (k - 1) * S + j
              /\ (k - 1) * S + j <= notAfter(c.res.rows[j])

\* C14 witness: getPageFromIDB returned a last page that is shorter than the page size
C14_Witness ==
  /\ hist # <<>> /\ ValidFetch(hist[1]) /\ hist[1].op = "page"
  /\ DescPage(hist[1]).n = 2 /\ DescPage(hist[1]).n = CeilDiv(Len(MatchingOf(hist[1])), DescPageSize(hist[1]).n)
  /\ hist[1].res.rows # <<>>
  /\ Len(hist[1].res.rows) < DescPageSize(hist[1]).n

\* the request of a fetchPage call with the page replaced
AtPage(c, k) ==
  IF c.op = "comp" THEN [c.req EXCEPT !.page = NumStr(k)] ELSE [c.req EXCEPT !.page = k]

\* C15: pagination clamp: fetchPage for a page beyond ceil(count(F) / pageSize) is no
\* error and returns the content of the last valid page
C15_PaginationClamp ==
  hist # <<>> /\ ValidFetch(hist[1]) =>
    LET c == hist[1]
        last == CeilDiv(Len(MatchingOf(c)), DescPageSize(c).n)
    IN last >= 1 /\ DescPage(c).n > last =>
         /\ c.res.status = 200
         /\ IF c.op = "comp" THEN c.res \in GetComp(remote, AtPage(c, last))
                             ELSE c.res.rows = GetPageFromIDB(idb, AtPage(c, last))

\* the value of a row in the ORDER BY column that the sortBy parameter asks for
AskedValue(c, r) ==
  Field(r, IF c.req.sortBy.kind = "string" /\ c.req.sortBy.text \in COLS
             THEN c.req.sortBy.text ELSE "Company_Name")

\* the request asks for the descending direction: "desc" in any case
AsksDesc(c) ==
  IF c.op = "comp"
    THEN c.req.sortDir.kind = "string" /\ ToLowerCase(c.req.sortDir.text) = <<"d", "e", "s", "c">>
    ELSE c.req.sortDir \in {"desc", "DESC", "Desc"}

\* C16: sort column allow-list: for every sortBy parameter (absent, unknown, not a
\* string) the ORDER BY column of GET /comp is a known column, Company_Name when the
\* parameter is absent or unknown, and the request succeeds with the rows in the order
\* of that column
C16_SortAllowList ==
  hist # <<>> /\ hist[1].op = "comp" =>
    LET c == hist[1] IN
      /\ OrderColumnOf(c.req.sortBy) \in COLS
      /\ (c.req.sortBy.kind # "string" \/ c.req.sortBy.text \notin COLS)
           => OrderColumnOf(c.req.sortBy) = "Company_Name"
      /\ ValidFetch(c) \/ (IsNullish(c.req.page) /\ c.req.pageSize = <<"3">>) =>
           /\ c.res.status = 200
           /\ \A i, j \in 1..Len(c.res.rows) : i < j =>
                IF AsksDesc(c)
                  THEN ~SqlLess(AskedValue(c, c.res.rows[i]), AskedValue(c, c.res.rows[j]))
                  ELSE ~SqlLess(AskedValue(c, c.res.rows[j]), AskedValue(c, c.res.rows[i]))

\* C16 witness: GET /comp with sortBy = "DROP TABLE" answered rows of different
\* Company_Name
C16_Witness ==
  /\ hist # <<>> /\ hist[1].op = "comp" /\ hist[1].req.sortBy = Str("DROP TABLE")
  /\ hist[1].res.status = 200
  /\ \E i, j \in 1..Len(hist[1].res.rows) :
       SqlLess(hist[1].res.rows[i].Company_Name, hist[1].res.rows[j].Company_Name)

\* C17: planner totality: for every raw pageSize and page parameter GET /comp works
\* with a page size in [1, 10000] and a page >= 1, and the request does not fail
C17_PlannerTotality ==
  hist # <<>> /\ hist[1].op = "comp" =>
    /\ ~EffPageSize(hist[1].req.pageSize).nan
    /\ EffPageSize(hist[1].req.pageSize).n \in 1..MaxPageSize
    /\ ~EffPage(hist[1].req.page).nan
    /\ EffPage(hist[1].req.page).n >= 1
    /\ hist[1].res.status = 200

\* the sort value of a row in a call of getPageFromIDB
LocalValue(c, r) == StrOrEmpty(Field(r, c.req.sortBy))

\* C18: sort direction normalization: both adapters sort descending for the input
\* "desc" in any case and ascending for every other input
C18_SortDirection ==
  hist # <<>> /\ hist[1].op \in {"comp", "page"} /\ hist[1].res.status = 200 =>
    LET c == hist[1] IN
      \A i, j \in 1..Len(c.res.rows) : i < j =>
        IF c.op = "comp"
          THEN IF AsksDesc(c)
                 THEN ~SqlLess(AskedValue(c, c.res.rows[i]), AskedValue(c, c.res.rows[j]))
                 ELSE ~SqlLess(AskedValue(c, c.res.rows[j]), AskedValue(c, c.res.rows[i]))
          ELSE IF AsksDesc(c)
                 THEN LocaleCompare(LocalValue(c, c.res.rows[i]), LocalValue(c, c.res.rows[j])) >= 0
                 ELSE LocaleCompare(LocalValue(c, c.res.rows[i]), LocalValue(c, c.res.rows[j])) <= 0

-----------------------------------------------------------------------------
(* Properties of the page view *)

\* C19: page fetch error handling: when the page fetch for the current descriptor
\* fails, the visible rows become empty, the visible total count 0 and an error
\* message is set, the page cache is left unchanged, and no request is issued until the
\* user changes the descriptor
C19_FetchErrorHandling ==
  [][(\E i \in DOMAIN effects : ~effects[i].cancelled /\ FetchFailed(i)) =>
       /\ rows' = <<>> /\ totalCount' = 0 /\ error'
       /\ pageCache' = pageCache
       /\ page' = page
       /\ \A k \in DOMAIN effects' : effects'[k].cancelled]_vars

KeyOf(d) == CacheKey(d.page, d.pageSize, d.sortBy, d.dir, d.F)

\* the descriptor that the cache lookup of the current view uses
CurKeyDesc ==
  [page |-> page, pageSize |-> pageSize, sortBy |-> sortBy,
   dir |-> EffSortDir(sortBy, sortDir, ""), F |-> debounced]

\* the key k reads as page-pageSize-sortBy-dir-{"Company_Name":"pattern"}
KeyParts(k) ==
  LET p == LeadingDigits(k)
      k1 == SubSeq(k, Len(p) + 2, Len(k))
      z == LeadingDigits(k1)
      k2 == SubSeq(k1, Len(z) + 2, Len(k1))
  IN [ok |-> /\ p # <<>> /\ Len(k) > Len(p) /\ k[Len(p) + 1] = "-"
             /\ z # <<>> /\ Len(k1) > Len(z) /\ k1[Len(z) + 1] = "-"
             /\ Len(k2) >= 10 /\ k2[2] = "-" /\ k2[4] = "-",
      page |-> p, pageSize |-> z, rest |-> k2]

\* the descriptor serialized in a key that reads well
DescIn(k) ==
  LET parts == KeyParts(k)
  IN [page |-> DigitsValue(parts.page), pageSize |-> DigitsValue(parts.pageSize),
      sortBy |-> parts.rest[1], dir |-> parts.rest[3],
      F |-> [c \in FilterCols |-> SubSeq(parts.rest, 9, Len(parts.rest) - 2)]]

\* the entries that a step writes into the page cache
Written == pageCache' \ pageCache

\* C20: page cache keying: an entry that a step stores under key k holds a row sequence
\* that GET /comp answers for the descriptor serialized in k, k reads as exactly one
\* descriptor, and the entry is the only one under k; in every state, the lookup of the
\* current descriptor hits only an entry whose key serializes that very descriptor, field
\* by field
C20_CacheKeying ==
  /\ [](LET cur == KeyOf(CurKeyDesc)
        IN \A c \in pageCache : c.key = cur =>
             KeyParts(cur).ok /\ DescIn(cur) = CurKeyDesc)
  /\ [][\A c \in Written :
          /\ KeyParts(c.key).ok
          /\ LET d == DescIn(c.key)
             IN /\ KeyOf(d) = c.key
                /\ c.rows \in RemotePages(remote, Params(d.page, d.pageSize, d.dir, d.F))
          /\ \A c2 \in pageCache' : c2.key = c.key => c2 = c]_vars

\* C20 witness: with two entries in the cache, the rows shown are the entry of the
\* current descriptor, and the other entry belongs to another descriptor
C20_Witness ==
  /\ ~offline /\ effects = <<>> /\ Cardinality(pageCache) >= 2
  /\ InCache(pageCache, KeyOf(CurKeyDesc))
  /\ rows = CachedRows(pageCache, KeyOf(CurKeyDesc))
  /\ \E c \in pageCache : c.key # KeyOf(CurKeyDesc) /\ c.rows # rows

-----------------------------------------------------------------------------
(* Properties of the export *)

\* the exports that ended since the last job was started
EndedExports == {x \in {log.local, log.remoteX} : x.outcome = "ok"}

\* the rows of the source of an export with the record x that its filters select
ExportSource(x) ==
  IF x.local THEN {s \in idb : RowMatches(s, x.F)}
             ELSE {remote[k] : k \in {m \in 1..Len(remote) : WhereHolds(remote[m], x.F)}}

\* the column keys of the rows that an export accumulated
ObservedKeys(x) == UNION {DOMAIN x.rows[k] : k \in 1..Len(x.rows)}

BaseSet == {BASE_COLS[n] : n \in 1..Len(BASE_COLS)}

\* C23: export columns: the exported table has one row per accumulated row, its header
\* is the 12 known columns in their order followed by every other column key observed
\* in an exported row, each once, and a cell holds the row's value or the empty value
C23_ExportColumns ==
  \A x \in EndedExports :
    /\ Len(x.sheet) = Len(x.rows)
    /\ SubSeq(x.headers, 1, Len(BASE_COLS)) = BASE_COLS
    /\ {x.headers[n] : n \in (Len(BASE_COLS) + 1)..Len(x.headers)} = ObservedKeys(x) \ BaseSet
    /\ Len(x.headers) = Cardinality(BaseSet \cup ObservedKeys(x))
    /\ \A k \in 1..Len(x.rows) :
         /\ DOMAIN x.sheet[k] = BaseSet \cup ObservedKeys(x)
         /\ \A h \in DOMAIN x.sheet[k] :
              x.sheet[k][h] = IF h \in DOMAIN x.rows[k] /\ ~IsNullish(x.rows[k][h])
                                THEN x.rows[k][h] ELSE <<>>

\* C24: export drain: an export over a stable source has requested the pages 1, 2, ...
\* in order, every chunk but the last is full, each of the N matching rows is
\* accumulated exactly once, and the job is over with the busy flag released
C24_ExportDrain ==
  log.last = "export" =>
    \A x \in EndedExports :
      /\ x.pages = [k \in 1..Len(x.pages) |-> k]
      /\ Len(x.rows) = Cardinality(ExportSource(x))
      /\ {x.rows[k] : k \in 1..Len(x.rows)} = ExportSource(x)
      /\ jobs = <<>> /\ ~syncing

\* C25: busy flag release: when every adapter call eventually returns or fails, a
\* started sync or export reaches an outcome after which the busy flag syncing is false
\* and no job is left, and the flag is true while the job runs
C25_BusyFlagRelease ==
  /\ (jobs # <<>>) ~> (jobs = <<>> /\ ~syncing)
  /\ [](jobs # <<>> => syncing)

\* C25 witness: a job has ended, by success, by the zero-total exit or by a failure,
\* and the busy flag is false
C25_Witness ==
  /\ log.last \in {"sync", "export"} /\ jobs = <<>> /\ ~syncing
  /\ \/ log.sync.outcome \in {"ok", "nothing", "failed"}
     \/ log.local.outcome \in {"ok", "failed"}
     \/ log.remoteX.outcome \in {"ok", "failed"}

RECURSIVE Concat(_)
\* the concatenation of a sequence of pages
Concat(pgs) == IF pgs = <<>> THEN <<>> ELSE Head(pgs) \o Concat(Tail(pgs))

\* C26: deterministic local pagination: over an unchanged store, for the filters, sort
\* column, direction and page size of a descriptor, the pages 1 .. ceil(n / pageSize)
\* of getPageFromIDB put together hold every matching row exactly once, n being the
\* answer of getCountFromIDB for the same filters
C26_LocalPagination ==
  hist # <<>> /\ hist[1].op = "drain" =>
    LET c == hist[1]
        all == Concat(c.res.pages)
        matching == {r \in idb : RowMatches(r, c.req.filters)}
    IN /\ c.res.count = Cardinality(matching)
       /\ Len(c.res.pages) = CeilDiv(c.res.count, c.req.pageSize)
       /\ Len(all) = c.res.count
       /\ {all[k] : k \in 1..Len(all)} = matching

\* C26 witness: four matching rows, two of them equal in the sort column, read in more
\* than one page
C26_Witness ==
  /\ hist # <<>> /\ hist[1].op = "drain"
  /\ hist[1].res.count = 4 /\ Len(hist[1].res.pages) >= 2
  /\ \E r1, r2 \in idb : r1 # r2 /\ Field(r1, hist[1].req.sortBy) = Field(r2, hist[1].req.sortBy)

\* a stored value that is a number or a string of decimal digits
IsNumeric(v) ==
  \/ IsNumber(v)
  \/ ~IsNullish(v) /\ v # <<>> /\ \A n \in 1..Len(v) : IsDigit(v[n])

\* its numeric value
NumericOf(v) == IF IsNumber(v) THEN NumberOf(v) ELSE DigitsValue(v)

\* C27: numeric sort in the local adapter: sorted by a numeric column, the rows that
\* getPageFromIDB returns over the pages of a descriptor stand in the order of their
\* numeric values, ascending or descending as asked, whether the value is stored as a
\* number or as a numeric string and with rows that have no value, and the comparator
\* is a consistent order on the rows of the store (irreflexive, asymmetric, transitive)
C27_NumericSort ==
  hist # <<>> /\ hist[1].op = "drain" /\ hist[1].req.sortBy \in NUMERIC_COLS =>
    LET q == hist[1].req
        all == Concat(hist[1].res.pages)
        val(r) == Field(r, q.sortBy)
    IN /\ \A i, j \in 1..Len(all) :
            i < j /\ IsNumeric(val(all[i])) /\ IsNumeric(val(all[j])) =>
              IF q.sortDir = "desc"
                THEN NumericOf(val(all[i])) >= NumericOf(val(all[j]))
                ELSE NumericOf(val(all[i])) <= NumericOf(val(all[j]))
       /\ \A x, y, z \in idb :
            /\ ~(IdbBefore(x, y, q) /\ IdbBefore(y, x, q))
            /\ IdbBefore(x, y, q) /\ IdbBefore(y, z, q) => IdbBefore(x, z, q)

\* the row with every known column under its canonical name
Canonical(r) ==
  [c \in DOMAIN r \cup BaseSet |-> IF c \in BaseSet THEN ValueOf(r, c) ELSE r[c]]

\* C28: alias normalization before filtering and sorting: the readers of the local
\* store answer as they would over the store of the alias-normalized rows, so a row
\* that holds a column under an alias key only is filtered and sorted by the value the
\* page view displays for it (valueOf)
C28_AliasNormalization ==
  hist # <<>> =>
    LET c == hist[1]
        norm == {Canonical(r) : r \in idb}
        shown(rs) == [k \in 1..Len(rs) |-> Canonical(rs[k])]
    IN CASE c.op = "page" -> shown(c.res.rows) = GetPageFromIDB(norm, c.req)
         [] c.op = "idbcount" -> c.res.count = GetCountFromIDB(norm, c.req.filters)
         [] c.op = "drain" ->
              /\ c.res.count = GetCountFromIDB(norm, c.req.filters)
              /\ \A k \in 1..Len(c.res.pages) :
                   shown(c.res.pages[k]) = GetPageFromIDB(norm, [c.req EXCEPT !.page = k])

-----------------------------------------------------------------------------
(* Properties of the session with a page view and a bulk job *)

\* the job that starts, runs or ends in a step is an export
ExportStepping ==
  \/ jobs # <<>> /\ jobs[1].kind = "export"
  \/ jobs' # <<>> /\ jobs'[1].kind = "export"

\* C21: bulk jobs leave the caches alone: no step of a sync or an export adds, removes
\* or changes a page cache entry, and no step of an export, in either mode, on success
\* or failure, writes to or clears the local store
C21_BulkJobsKeepCaches ==
  [][jobs' # jobs => /\ pageCache' = pageCache
                     /\ (ExportStepping => idb' = idb)]_vars

\* C21 witness: the bulk job of the session has ended, by success, early exit or
\* failure, and the page cache holds rows of a remote fetch
C21_Witness ==
  /\ log.last \in {"sync", "export"} /\ jobs = <<>>
  /\ pageCache # {}
  /\ \E c \in pageCache : c.rows # <<>>

\* the rows come from the local store: upsertRows has given each its rowKey
FromLocalStore(rs) == \A k \in 1..Len(rs) : "rowKey" \in DOMAIN rs[k]

C29_ModeSwitching ==
  /\ [](CanInput => ENABLED ToggleOffline)
  /\ [][offline' # offline =>
          /\ jobs' = jobs /\ syncing' = syncing /\ syncMsg' = syncMsg /\ log' = log
          /\ idb' = idb /\ remote' = remote /\ pageCache' = pageCache
          /\ page' = 1
          /\ \A k \in DOMAIN effects' :
               ~effects'[k].cancelled => effects'[k].off = offline' /\ effects'[k].page = 1]_vars

\* C29 witness: the mode was toggled while a job runs: the job goes on in the mode it
\* started in, and a page fetch of the new mode is under way
C29_Witness ==
  /\ jobs # <<>> /\ syncing /\ jobs[1].local # offline
  /\ \E k \in DOMAIN effects : ~effects[k].cancelled /\ effects[k].off = offline

-----------------------------------------------------------------------------
(* Properties of the credential check *)

\* the request carries a bearer token that verifies
CarriesValidToken(c) ==
  c.hdr.scheme = "Bearer" /\ c.hdr.token.signed /\ ~c.hdr.token.expired

\* the status of the user of the token in the users table, "none" without a row
UserStatus(c) ==
  LET u == c.hdr.token.payload.uid
  IN IF u \in Uids /\ users[u] \notin {"unused", "deleted"} THEN users[u] ELSE "none"

\* C30: credential check on the data endpoints: GET /comp and GET /comp/count run
\* their query only after requireAuth has found a bearer token that verifies and a user
\* row with status active; a missing or invalid token or a user without a row is
\* answered 401 and a pending or removed user 403, whenever the token was issued
C30_CredentialCheck ==
  /\ [][call.pc = "auth" /\ call'.pc # "auth" =>
          /\ call'.pc = "handler" <=> CarriesValidToken(call) /\ UserStatus(call) = "active"
          /\ ~CarriesValidToken(call) \/ UserStatus(call) = "none" =>
               call'.pc = "done" /\ call'.status = "401"
          /\ CarriesValidToken(call) /\ UserStatus(call) \in {"pending", "removed"} =>
               call'.pc = "done" /\ call'.status = "403"]_vars
  /\ [][call' # call /\ call'.pc = "done" /\ call'.queried => call.pc = "handler"]_vars

\* C30 witness: a login token signed while its user was active is answered 403 after
\* the user was removed
C30_Witness ==
  /\ call.pc = "done" /\ call.status = "403" /\ call.ep \in {"comp", "count"}
  /\ call.hdr.token = Token(TRUE, FALSE, LoginToken("u1"))
  /\ users["u1"] = "removed"

\* C31: fencing of failed responses: when a request of a run of the page-load effect
\* is rejected after the descriptor of the run has been superseded by another one, the
\* visible rows, the visible total count and the error message stay as they are
C31_FailureFencing ==
  [][\A i \in DOMAIN effects :
       (effects[i].cancelled /\ DescOf(effects[i]) # CurDesc /\ FetchFailed(i))
         => (rows' = rows /\ totalCount' = totalCount /\ error' = error)]_vars

\* C33: the visible total count matches the visible rows: in remote mode, whenever no
\* run of the page-load effect is waiting for an answer and no error is shown, the
\* visible total count is the count of the remote rows that the filters of the
\* current descriptor match, also after a cache hit
C33_CountMatchesRows ==
  (~offline /\ effects = <<>> /\ ~error)
    => totalCount = RemoteCount(remote, Params(page, pageSize, CurDesc.dir, debounced))

\* the answers the adapter of the current mode can give for the current descriptor
CurrentResult == PagesOf(NewEffect(offline, page, debounced, CurDesc.dir))

\* C36: eventual display: once the user makes no more input and the adapter answers
\* the outstanding requests, the view reaches and keeps a state in which the loading
\* indicator is off and the visible rows are an answer of the adapter for the current
\* descriptor or, if the fetch of the current run failed, the error state
C36_EventualDisplay ==
  <>[](/\ ~loading
       /\ IF failed THEN error /\ rows = <<>> /\ totalCount = 0
                    ELSE rows \in CurrentResult)

\* the rows a sync has fetched, each with the key upsertRows gave it
FetchedKeys(s) ==
  UNION {{<<s.chunks[k][n], MakeKey(s.chunks[k][n], n - 1)>> : n \in 1..Len(s.chunks[k])} :
           k \in DOMAIN s.chunks}

\* C32: row keys are unique within one sync: two distinct rows fetched by the same
\* successful sync never get the same row key, and when the sync has ended the store
\* holds one entry for each distinct row the sync has fetched (the fetched count it
\* reports, when no row was fetched twice)
C32_RowKeysUnique ==
  (log.last = "sync" /\ log.sync.outcome = "ok") =>
    /\ \A x, y \in FetchedKeys(log.sync) : x[1] # y[1] => x[2] # y[2]
    /\ Cardinality(idb) = Cardinality({x[1] : x \in FetchedKeys(log.sync)})

\* C35: remote pagination is deterministic under ties: over a stable table the chunk
\* requests of one successful sync, all with the same filters and sort, return no row
\* twice and skip no matching row, also when rows share the value of the sort column
C35_TieBreak ==
  log.sync.outcome = "ok" =>
    LET all == Concat(log.sync.chunks)
        matching == Matching(remote, log.sync.F)
    IN /\ \A m, n \in 1..Len(all) : m # n => all[m] # all[n]
       /\ {all[k] : k \in 1..Len(all)} = {matching[k] : k \in 1..Len(matching)}

\* the chunk requests a sync with the count total may make
MaxChunkRequests(total) == CeilDiv(total, bulkSize)

\* the syncs that are running
RunningSyncs == {jobs[i] : i \in {k \in DOMAIN jobs : jobs[k].kind = "sync"}}

\* C34: sync loop bound: whatever the remote returns, a sync that obtained the count
\* total makes at most ceil(total / bulkSize) chunk requests; at the head of the loop
\* fetched is a full chunk for each request made and below total; fetched never
\* decreases during the run
C34_SyncLoopBound ==
  /\ [](/\ \A j \in RunningSyncs :
             /\ Len(j.pages) <= MaxChunkRequests(j.total)
             /\ j.pc = "fetch" => (j.fetched = Len(j.pages) * bulkSize /\ j.fetched < j.total)
        /\ log.sync.outcome # "none"
             => Len(log.sync.pages) <= MaxChunkRequests(log.sync.total))
  /\ [][/\ \A i \in DOMAIN jobs : i \in DOMAIN jobs' => jobs'[i].fetched >= jobs[i].fetched
        /\ (jobs # <<>> /\ jobs' = <<>>) => log'.sync.fetched >= jobs[1].fetched]_vars

\* C34 witness: the remote shrank during a sync of more than one chunk request, which
\* ended on an empty chunk with fewer rows fetched than counted
C34_Witness ==
  /\ log.last = "sync" /\ log.sync.outcome = "ok"
  /\ log.sync.fetched < log.sync.total
  /\ Len(log.sync.pages) >= 2
  /\ Len(log.sync.pages) = MaxChunkRequests(log.sync.total)

\* C37: POST /login returns a token only when a row with the email exists, the password
\* matches the stored hash and the status of the row is active; a pending or removed
\* user gets 403 and no token, after every sequence of signups, approvals, removals and
\* deletions
C37_LoginOnlyActive ==
  [][/\ (call.pc = "login" /\ call'.pc = "compare") =>
          LET found == RowsWithEmail(users, emails, call.email)
          IN IF found = {} THEN call'.row = NoRow
             ELSE /\ call'.row.id \in found
                  /\ call'.row.status = users[call'.row.id]
                  /\ call'.row.password_hash = PasswordHash(emails, call'.row.id)
     /\ (call.pc = "compare" /\ call'.pc = "done") =>
          LET granted == /\ call.row # NoRow
                         /\ call.row.password_hash = Hash(call.password)
                         /\ call.row.status = "active"
          IN /\ (call'.status = "200") = granted
             /\ ("token" \in DOMAIN call') = granted
             /\ granted => call'.token = LoginToken(call.row.id)
             /\ ~granted => issued' = issued
             /\ (/\ call.row # NoRow
                 /\ call.row.password_hash = Hash(call.password)
                 /\ call.row.status \in {"pending", "removed"})
                  => call'.status = "403"]_vars

\* a login of a removed user with the right password has been answered 403, after the
\* same user had logged in while active
C37_Witness ==
  /\ call.pc = "done" /\ call.ep = "login" /\ call.status = "403"
  /\ \E u \in Uids : users[u] = "removed" /\ LoginToken(u) \in issued

\* the rows of the users table
UserRows == {u \in Uids : HasRow(users, u)}

DeleteReachesHandler ==
  /\ call.pc = "delete"
  /\ AuthOutcome(call.hdr, users) = "next"
  /\ RoleOf(emails, call.hdr.token.payload.uid) = "admin"

\* C39: POST /admin/delete/:id never deletes the user whose email is the primary admin
\* email: it answers 400 and leaves the users table as it is; it answers 404 without a
\* change for an id without a row, and otherwise deletes exactly the addressed user
C39_PrimaryAdminKept ==
  [][/\ (call.pc = "delete" /\ call'.pc = "done") =>
          /\ \A u \in UserRows :
               SameEmail(emails[u], ADMIN_EMAIL) => (HasRow(users', u) /\ emails'[u] = emails[u])
          /\ ~DeleteReachesHandler =>
               (call'.status \in {"401", "403"} /\ users' = users /\ emails' = emails)
          /\ DeleteReachesHandler =>
               IF call.id \notin UserRows
                 THEN call'.status = "404" /\ users' = users /\ emails' = emails
               ELSE IF SameEmail(emails[call.id], ADMIN_EMAIL)
                 THEN call'.status = "400" /\ users' = users /\ emails' = emails
               ELSE /\ call'.status = "200"
                    /\ ~HasRow(users', call.id)
                    /\ \A u \in Uids \ {call.id} : users'[u] = users[u] /\ emails'[u] = emails[u]
     /\ \A u \in UserRows : SameEmail(emails[u], ADMIN_EMAIL) => HasRow(users', u)]_vars

\* the primary admin has asked to delete its own account and was answered 400, after it
\* had deleted the account of another user
C39_Witness ==
  /\ call.pc = "done" /\ call.ep = "delete" /\ call.status = "400"
  /\ \E u \in UserRows : emails[u] = ADMIN_EMAIL
  /\ \E u \in Uids : users[u] = "deleted"

====
